---- MODULE Spec2Model ----
(***************************************************************************)
(* zerofs: the directory handle, the path trace engine and the open_at     *)
(* protocol (src/zerofs/src/filesystem).                                   *)
(*                                                                         *)
(* A client builds a directory with Dir::new / Dir::put, wraps it in a     *)
(* DirHandle (or takes RootDir::make_handle on the always-empty root), and *)
(* calls open_at on the handle.  The outcome of the call is kept in        *)
(* `result` until the client releases it.                                  *)
(***************************************************************************)
EXTENDS Integers, Sequences, FiniteSets, TLC

VARIABLES
    root,      \* the Dir held by the RootDir
    workdir,   \* a Dir under construction by the client, NoDir once moved
    cur,       \* the DirHandle the client calls open_at on, NoHandle before
    result,    \* the last open_at call and its outcome, Idle when consumed
    created,   \* history: the path the last successful CREATE through cur
               \* created (its segments canonicalized), NoPath before
    store,     \* the blocks of the backing store and of each handle's overlay
               \* front store
    other,     \* a second DirHandle minted on the same RootDir, NoHandle before
    twin,      \* a second Dir value of the client, NoDir before
    heap,      \* the Arc allocations behind the client's node references
    refs,      \* the client's node references: the allocation each points to
    op,        \* history: the last operation made on a Dir or a reference
    cidlink,   \* a CidLink shared by the resolving tasks, NoLink before
    tasks,     \* each task's position in its call of resolve and its result
    fills,     \* history: the values written into the link's cache, in order
    stream,    \* a FileInputStream: its buffer and its reader, NoStream before
    taken,     \* history: the bytes the stream's read and skip calls took, in
               \* order, each with the call that took it
    memblocks, \* the HashMap of a MemBlockStore
    rwlock,    \* the RwLock around the HashMap: its writer and its readers
    calls,     \* each client's position in its call on the MemBlockStore
    ledger,    \* history: for each block id the last write or delete that
               \* took effect on it
    parsed,    \* the paths a client has parsed, NoParsed before
    pathop     \* history: the last operation applied to the parsed paths

openVars == <<root, workdir, cur, result, created>>
shareVars == <<store, other>>
nodeVars == <<twin, heap, refs, op>>
linkVars == <<cidlink, tasks, fills>>
\* the state of the parts exercised on their own
streamVars == <<stream, taken>>
blockVars == <<memblocks, rwlock, calls, ledger>>
pathVars == <<parsed, pathop>>
unitVars == <<linkVars, streamVars, blockVars, pathVars>>
vars == <<openVars, shareVars, nodeVars, unitVars>>

----------------------------------------------------------------------------
(* Bounds *)

MaxPathLen == 2
MaxClock == 1
\* the blocks the client may add to the backing store
MaxStored == 1
\* the most bytes one read of the file's reader brings
MaxChunk == 2
\* the longest path handed to Path::canonicalize
MaxCanonLen == 3

----------------------------------------------------------------------------
(* Flag sets: flag.rs *)

READ == 1
WRITE == 2
MUTATE_DIR == 4

CREATE == 1
DIRECTORY == 2
EXCLUSIVE == 4
TRUNCATE == 8

DescriptorFlags == 0..7
OpenFlags == 0..15

\* bitflags `contains` for a single-bit flag
contains(flags, bit) == (flags \div bit) % 2 = 1

----------------------------------------------------------------------------
(* Path and PathSegment: path.rs *)

\* the raw segment strings a client may write between separators
RawSegments == {"a", "A", "b"}

\* RE_VALID_PATH_SEGMENT = ^[a-zA-Z0-9]+$ over the strings of the model
RE_VALID_PATH_SEGMENT == {"a", "A", "b", "B"}

validate(segment) ==
    segment = "." \/ segment = ".." \/ segment \in RE_VALID_PATH_SEGMENT

CurrentDir == [tag |-> "CurrentDir", s |-> "."]
ParentDir == [tag |-> "ParentDir", s |-> ".."]
Named(s) == [tag |-> "Named", s |-> s]

\* TryFrom<String> for PathSegment (after validate)
SegmentTryFrom(segment) ==
    CASE segment = "." -> CurrentDir
      [] segment = ".." -> ParentDir
      [] OTHER -> Named(segment)

\* str::to_lowercase over the strings of the model
to_lowercase(s) ==
    CASE s = "A" -> "a"
      [] s = "B" -> "b"
      [] OTHER -> s

\* PathSegment::canonicalize
canonicalize_segment(seg) ==
    IF seg.tag = "Named" THEN Named(to_lowercase(seg.s)) ELSE seg

\* impl PartialEq for PathSegment
SegmentEq(x, y) ==
    LET cx == canonicalize_segment(x)
        cy == canonicalize_segment(y)
    IN  CASE cx.tag = "CurrentDir" /\ cy.tag = "CurrentDir" -> TRUE
          [] cx.tag = "ParentDir" /\ cy.tag = "ParentDir" -> TRUE
          [] cx.tag = "Named" /\ cy.tag = "Named" -> cx.s = cy.s
          [] OTHER -> FALSE

\* derived PartialEq for Path: same length, segments pairwise equal
PathEq(p, q) ==
    /\ Len(p) = Len(q)
    /\ \A i \in 1..Len(p) : SegmentEq(p[i], q[i])

RECURSIVE SeqsUpTo(_, _)
SeqsUpTo(S, n) ==
    IF n = 0 THEN {<<>>}
    ELSE LET shorter == SeqsUpTo(S, n - 1)
         IN  shorter \cup {Append(q, x) : q \in shorter, x \in S}

\* the raw paths of the model, already split at PATH_SEPARATOR with the
\* empty segments filtered out: every path over the valid segments, and two
\* paths with a segment the regex rejects
RawPaths ==
    SeqsUpTo(RawSegments, MaxPathLen) \cup {<<"?">>, <<"a", "?">>}

\* TryFrom<&str> for Path: every segment must validate
PathTryFrom(raw) ==
    IF \A i \in 1..Len(raw) : validate(raw[i])
    THEN [ok |-> TRUE, path |-> [i \in 1..Len(raw) |-> SegmentTryFrom(raw[i])]]
    ELSE [ok |-> FALSE,
          err |-> "InvalidPathSegment",
          segment |-> raw[CHOOSE i \in 1..Len(raw) :
                            /\ ~validate(raw[i])
                            /\ \A j \in 1..(i - 1) : validate(raw[j])]]

\* usize::MAX as far as the model's integers reach; only its being larger
\* than every path length matters
UsizeMax == 2147483647

\* `a - b` on usize: panics when overflow checks are compiled in, wraps
\* otherwise
UsizeSub(a, b, overflow_checks) ==
    IF a >= b THEN [panic |-> FALSE, value |-> a - b]
    ELSE IF overflow_checks THEN [panic |-> TRUE, value |-> 0]
    ELSE [panic |-> FALSE, value |-> UsizeMax - (b - a) + 1]

\* Path::slice(from..to): panics when the range is out of bounds
SliceOk(path, from, to) == from <= to /\ to <= Len(path)

slice(path, from, to) == SubSeq(path, from + 1, to)

----------------------------------------------------------------------------
(* Metadata, Dir, File, links *)

NoCid == 0
Cids == {1}
\* the instants Utc::now() may return (a wall clock: not monotonic)
Times == 0..MaxClock
NoEntity == [variant |-> "None"]
NoDir == [variant |-> "NoDir"]
NoHandle == [variant |-> "NoHandle"]
Idle == [kind |-> "Idle"]
NoPath == [some |-> FALSE]
None == [some |-> FALSE]
Some(x) == [some |-> TRUE, value |-> x]

\* Metadata::new
MetadataNew(entity_type, now) ==
    [entity_type |-> entity_type, created_at |-> now, modified_at |-> now]

\* Dir::new
DirNew(now) == [metadata |-> MetadataNew("Dir", now), entries |-> {}]

\* File::new
FileNew(now) == [metadata |-> MetadataNew("File", now), content |-> NoCid]

EntityDir(d) == [variant |-> "Dir", node |-> d]
EntityFile(f) == [variant |-> "File", node |-> f]

\* From<Cid> for CidLink: the cache starts empty
LinkFrom(cid) == [identifier |-> cid, cached |-> NoEntity]

\* DirPut that leaves the Cid of a name already present as it is
DirPutKeepsOld(dir, name, cid) ==
    IF \E e \in dir.entries : SegmentEq(e.key, name)
    THEN dir
    ELSE [dir EXCEPT !.entries = @ \cup {[key |-> name, link |-> LinkFrom(cid)]}]

\* Dir::put: HashMap::insert under the case-insensitive Eq/Hash of
\* PathSegment; an equal key keeps the old key and takes the new value
DirPut(dir, name, cid) ==
    IF \E e \in dir.entries : SegmentEq(e.key, name)
    THEN [dir EXCEPT !.entries =
            {IF SegmentEq(e.key, name)
             THEN [key |-> e.key, link |-> LinkFrom(cid)]
             ELSE e : e \in dir.entries}]
    ELSE [dir EXCEPT !.entries = @ \cup {[key |-> name, link |-> LinkFrom(cid)]}]

\* Dir::get
DirGet(dir, name) ==
    IF \E e \in dir.entries : SegmentEq(e.key, name)
    THEN [some |-> TRUE,
          link |-> (CHOOSE e \in dir.entries : SegmentEq(e.key, name)).link]
    ELSE [some |-> FALSE]

Panic == [kind |-> "Panic"]

\* Storable::load for Entity: unimplemented!()
EntityLoad(cid) == Panic

\* Resolvable::resolve for EntityCidLink: the cached value or the load
resolve(link) ==
    IF link.cached.variant # "None"
    THEN [kind |-> "Ok", some |-> TRUE, entity |-> link.cached]
    ELSE EntityLoad(link.identifier)

\* Dir::get_entity
get_entity(dir, name) ==
    LET g == DirGet(dir, name)
    IN  IF g.some THEN resolve(g.link)
        ELSE [kind |-> "Ok", some |-> FALSE]

----------------------------------------------------------------------------
(* The path trace engine: dir/dir.rs *)

Err(kind, path) == [kind |-> "Err", err |-> kind, path |-> path]

\* trace_entity, the lookup of the last segment (dir.rs:257-275)
TraceLast(dir, path, pathdirs) ==
    IF Len(path) > 0
    THEN LET segment == path[Len(path)]
             r == get_entity(dir, segment)
         IN  IF r.kind # "Ok" THEN r
             ELSE IF r.some
             THEN [kind |-> "Found", entity |-> r.entity,
                   name |-> Some(segment), pathdirs |-> pathdirs]
             ELSE [kind |-> "Incomplete", pathdirs |-> pathdirs,
                   depth |-> Len(path)]
    ELSE [kind |-> "Found", entity |-> EntityDir(dir), name |-> None,
          pathdirs |-> pathdirs]

\* trace_entity, the loop over the first n segments (dir.rs:237-254)
RECURSIVE TraceLoop(_, _, _, _, _)
TraceLoop(dir, path, depth, n, pathdirs) ==
    IF depth >= n THEN TraceLast(dir, path, pathdirs)
    ELSE LET segment == path[depth + 1]
             r == get_entity(dir, segment)
         IN  IF r.kind # "Ok" THEN r
             ELSE IF ~r.some
             THEN [kind |-> "Incomplete", pathdirs |-> pathdirs, depth |-> depth]
             ELSE IF r.entity.variant = "Dir"
             THEN TraceLoop(r.entity.node, path, depth + 1, n,
                            Append(pathdirs, <<r.entity.node, segment>>))
             ELSE IF r.entity.variant = "Symlink"
             THEN Err("SymLinkNotSupportedYet", slice(path, 0, depth))
             ELSE [kind |-> "NotADir", pathdirs |-> pathdirs, depth |-> depth]

\* Dir::trace_entity
trace_entity(self, path, overflow_checks) ==
    IF \/ UsizeSub(Len(path), 1, overflow_checks).panic
       \/ ~SliceOk(path, 0, UsizeSub(Len(path), 1, overflow_checks).value)
    THEN Panic
    ELSE TraceLoop(self, path, 0,
                   UsizeSub(Len(path), 1, overflow_checks).value, <<>>)

\* OnTrace with the first missing directory left out of pathdirs
OnTraceDropsFirst(t, path, file, now, overflow_checks) ==
    CASE t.kind = "Found" ->
           [kind |-> "Ok", entity |-> t.entity, name |-> t.name,
            pathdirs |-> t.pathdirs]
      [] t.kind = "Incomplete" ->
           IF \/ UsizeSub(Len(path), 1, overflow_checks).panic
              \/ ~SliceOk(path, t.depth,
                          UsizeSub(Len(path), 1, overflow_checks).value)
           THEN Panic
           ELSE [kind |-> "Ok",
                 entity |-> IF file THEN EntityFile(FileNew(now))
                            ELSE EntityDir(DirNew(now)),
                 name |-> IF Len(path) > 0 THEN Some(path[Len(path)]) ELSE None,
                 pathdirs |-> t.pathdirs \o
                     [i \in 1..(Len(path) - 2 - t.depth) |->
                         <<DirNew(now), path[t.depth + 1 + i]>>]]
      [] t.kind = "NotADir" ->
           Err("NotADirectory", slice(path, 0, t.depth))
      [] OTHER -> t

\* OnTrace with each fresh directory paired with the segment after its own
OnTraceShiftsSegments(t, path, file, now, overflow_checks) ==
    CASE t.kind = "Found" ->
           [kind |-> "Ok", entity |-> t.entity, name |-> t.name,
            pathdirs |-> t.pathdirs]
      [] t.kind = "Incomplete" ->
           IF \/ UsizeSub(Len(path), 1, overflow_checks).panic
              \/ ~SliceOk(path, t.depth,
                          UsizeSub(Len(path), 1, overflow_checks).value)
           THEN Panic
           ELSE [kind |-> "Ok",
                 entity |-> IF file THEN EntityFile(FileNew(now))
                            ELSE EntityDir(DirNew(now)),
                 name |-> IF Len(path) > 0 THEN Some(path[Len(path)]) ELSE None,
                 pathdirs |-> t.pathdirs \o
                     [i \in 1..(Len(path) - 1 - t.depth) |->
                         <<DirNew(now), path[t.depth + i + 1]>>]]
      [] t.kind = "NotADir" ->
           Err("NotADirectory", slice(path, 0, t.depth))
      [] OTHER -> t

\* get_or_create_entity, the match on the outcome t of the trace
\* (dir.rs:295-321)
OnTrace(t, path, file, now, overflow_checks) ==
    CASE t.kind = "Found" ->
           [kind |-> "Ok", entity |-> t.entity, name |-> t.name,
            pathdirs |-> t.pathdirs]
      [] t.kind = "Incomplete" ->
           IF \/ UsizeSub(Len(path), 1, overflow_checks).panic
              \/ ~SliceOk(path, t.depth,
                          UsizeSub(Len(path), 1, overflow_checks).value)
           THEN Panic
           ELSE [kind |-> "Ok",
                 entity |-> IF file THEN EntityFile(FileNew(now))
                            ELSE EntityDir(DirNew(now)),
                 name |-> IF Len(path) > 0 THEN Some(path[Len(path)]) ELSE None,
                 pathdirs |-> t.pathdirs \o
                     [i \in 1..(Len(path) - 1 - t.depth) |->
                         <<DirNew(now), path[t.depth + i]>>]]
      [] t.kind = "NotADir" ->
           Err("NotADirectory", slice(path, 0, t.depth))
      [] OTHER -> t

\* Dir::get_or_create_entity
get_or_create_entity(self, path, file, now, overflow_checks) ==
    OnTrace(trace_entity(self, path, overflow_checks), path, file, now,
            overflow_checks)

----------------------------------------------------------------------------
(* Handles: handle.rs, entity.rs *)

\* Handle::from
HandleFrom(entity, name, flags, pathdirs) ==
    [entity |-> entity, name |-> name, flags |-> flags, root |-> "RootDir",
     pathdirs |-> pathdirs]

\* File::truncate
truncate(file) == [file EXCEPT !.content = NoCid]

\* RootDir::fork: a clone of the directory on a buffer store; use_store
\* rebuilds every link with an empty cache
fork(dir) ==
    [dir EXCEPT !.entries =
        {[key |-> e.key, link |-> LinkFrom(e.link.identifier)] : e \in @}]

\* RootDir::make_handle
make_handle(dir, flags) == HandleFrom(fork(dir), None, flags, <<>>)

----------------------------------------------------------------------------
(* open_at: dir/op_open_at.rs *)

\* open_at, the conversion of the entity to a handle (op_open_at.rs:102-124)
ToHandle(e, path, open_flags, descriptor_flags) ==
    CASE e.entity.variant = "Dir" ->
           [kind |-> "Ok",
            handle |-> HandleFrom(e.entity, e.name, descriptor_flags, e.pathdirs)]
      [] e.entity.variant = "File" ->
           IF contains(open_flags, DIRECTORY)
           THEN Err("OpenFlagsDirectoryButEntityNotADir", path)
           ELSE [kind |-> "Ok",
                 handle |-> HandleFrom(
                     IF contains(open_flags, TRUNCATE)
                     THEN EntityFile(truncate(e.entity.node)) ELSE e.entity,
                     e.name, descriptor_flags, e.pathdirs)]
      [] OTHER -> Err("NotAFileOrDir", path)

\* open_at, the match on the outcome t of the trace when CREATE is not set
\* (op_open_at.rs:80-99)
OnLookup(t, path, open_flags) ==
    CASE t.kind = "Found" ->
           IF contains(open_flags, EXCLUSIVE)
           THEN Err("OpenFlagsExclusiveButEntityExists", path)
           ELSE [kind |-> "Ok", entity |-> t.entity, name |-> t.name,
                 pathdirs |-> t.pathdirs]
      [] t.kind = "NotADir" ->
           Err("NotADirectory", slice(path, 0, t.depth))
      [] t.kind = "Incomplete" ->
           Err("NotFound", slice(path, 0, t.depth))
      [] OTHER -> t

\* open_at, the lookup or creation of the entity (op_open_at.rs:77-100)
GetEntity(self, path, open_flags, now, overflow_checks) ==
    IF contains(open_flags, CREATE)
    THEN get_or_create_entity(self.entity, path, TRUE, now, overflow_checks)
    ELSE OnLookup(trace_entity(self.entity, path, overflow_checks), path,
                  open_flags)

\* FlagChecks with the flag-combination check made before the escalation
\* check
FlagChecksSwapped(self, path, open_flags, descriptor_flags) ==
    IF ~contains(descriptor_flags, READ)
    THEN Err("NeedAtLeastReadFlag", path)
    ELSE IF ~contains(self.flags, READ)
    THEN Err("NotAllowedToReadDir", <<>>)
    ELSE IF /\ contains(open_flags, DIRECTORY)
            /\ \/ contains(open_flags, CREATE)
               \/ contains(open_flags, EXCLUSIVE)
               \/ contains(open_flags, TRUNCATE)
    THEN Err("InvalidOpenFlagsCombination", path)
    ELSE IF /\ ~contains(self.flags, MUTATE_DIR)
            /\ \/ contains(descriptor_flags, MUTATE_DIR)
               \/ contains(descriptor_flags, WRITE)
               \/ contains(open_flags, CREATE)
               \/ contains(open_flags, TRUNCATE)
    THEN Err("ChildPermissionEscalation", path)
    ELSE [kind |-> "Pass"]

\* FlagChecks with the escalation check blind to descriptor_flags.WRITE
FlagChecksIgnoresWrite(self, path, open_flags, descriptor_flags) ==
    IF ~contains(descriptor_flags, READ)
    THEN Err("NeedAtLeastReadFlag", path)
    ELSE IF ~contains(self.flags, READ)
    THEN Err("NotAllowedToReadDir", <<>>)
    ELSE IF /\ ~contains(self.flags, MUTATE_DIR)
            /\ \/ contains(descriptor_flags, MUTATE_DIR)
               \/ contains(open_flags, CREATE)
               \/ contains(open_flags, TRUNCATE)
    THEN Err("ChildPermissionEscalation", path)
    ELSE IF /\ contains(open_flags, DIRECTORY)
            /\ \/ contains(open_flags, CREATE)
               \/ contains(open_flags, EXCLUSIVE)
               \/ contains(open_flags, TRUNCATE)
    THEN Err("InvalidOpenFlagsCombination", path)
    ELSE [kind |-> "Pass"]

\* FlagChecks with the escalation check blind to the open flags
FlagChecksIgnoresOpenFlags(self, path, open_flags, descriptor_flags) ==
    IF ~contains(descriptor_flags, READ)
    THEN Err("NeedAtLeastReadFlag", path)
    ELSE IF ~contains(self.flags, READ)
    THEN Err("NotAllowedToReadDir", <<>>)
    ELSE IF /\ ~contains(self.flags, MUTATE_DIR)
            /\ \/ contains(descriptor_flags, MUTATE_DIR)
               \/ contains(descriptor_flags, WRITE)
    THEN Err("ChildPermissionEscalation", path)
    ELSE IF /\ contains(open_flags, DIRECTORY)
            /\ \/ contains(open_flags, CREATE)
               \/ contains(open_flags, EXCLUSIVE)
               \/ contains(open_flags, TRUNCATE)
    THEN Err("InvalidOpenFlagsCombination", path)
    ELSE [kind |-> "Pass"]

\* open_at, the checks made on the flags (op_open_at.rs:39-72); "Pass"
\* when none fails
FlagChecks(self, path, open_flags, descriptor_flags) ==
    IF ~contains(descriptor_flags, READ)
    THEN Err("NeedAtLeastReadFlag", path)
    ELSE IF ~contains(self.flags, READ)
    THEN Err("NotAllowedToReadDir", <<>>)
    ELSE IF /\ ~contains(self.flags, MUTATE_DIR)
            /\ \/ contains(descriptor_flags, MUTATE_DIR)
               \/ contains(descriptor_flags, WRITE)
               \/ contains(open_flags, CREATE)
               \/ contains(open_flags, TRUNCATE)
    THEN Err("ChildPermissionEscalation", path)
    ELSE IF /\ contains(open_flags, DIRECTORY)
            /\ \/ contains(open_flags, CREATE)
               \/ contains(open_flags, EXCLUSIVE)
               \/ contains(open_flags, TRUNCATE)
    THEN Err("InvalidOpenFlagsCombination", path)
    ELSE [kind |-> "Pass"]

\* open_at, from the outcome e of the lookup or creation on
\* (op_open_at.rs:102-124)
OnEntity(e, path, open_flags, descriptor_flags) ==
    IF e.kind = "Ok" THEN ToHandle(e, path, open_flags, descriptor_flags)
    ELSE e

\* open_at, from the parsed path on (op_open_at.rs:39-124).  `traced` tells
\* whether the call went as far as walking the tree.
OnPath(self, path, open_flags, descriptor_flags, now, overflow_checks) ==
    IF FlagChecks(self, path, open_flags, descriptor_flags).kind # "Pass"
    THEN [res |-> FlagChecks(self, path, open_flags, descriptor_flags),
          traced |-> FALSE]
    ELSE [res |-> OnEntity(GetEntity(self, path, open_flags, now,
                                     overflow_checks),
                           path, open_flags, descriptor_flags),
          traced |-> TRUE]

\* DirHandle::open_at
open_at(self, raw, open_flags, descriptor_flags, now, overflow_checks) ==
    IF ~PathTryFrom(raw).ok
    THEN [res |-> [kind |-> "Err", err |-> PathTryFrom(raw).err, path |-> <<>>],
          traced |-> FALSE]
    ELSE OnPath(self, PathTryFrom(raw).path, open_flags, descriptor_flags,
                now, overflow_checks)

----------------------------------------------------------------------------
(* Serialization and the block store: dir/dir.rs, file/file.rs, symlink.rs *)

\* impl Display for PathSegment
to_string(seg) == seg.s

\* the byte order of the strings of the model, as Ord for String compares
StrRank(str) ==
    CASE str = "." -> 0
      [] str = ".." -> 1
      [] str = "A" -> 2
      [] str = "B" -> 3
      [] str = "a" -> 4
      [] str = "b" -> 5
      [] OTHER -> 6

\* collect::<BTreeMap<String, Cid>>() of a set of pairs with distinct
\* strings: the pairs in the order of their strings
RECURSIVE BTreeCollect(_)
BTreeCollect(pairs) ==
    IF pairs = {} THEN <<>>
    ELSE LET least == CHOOSE x \in pairs :
                          \A y \in pairs : StrRank(x[1]) <= StrRank(y[1])
         IN  <<least>> \o BTreeCollect(pairs \ {least})

\* DirSerialize with the names written in their canonical form
DirSerializeFolded(dir) ==
    [form |-> "Dir",
     metadata |-> dir.metadata,
     entries |-> BTreeCollect({<<to_string(canonicalize_segment(e.key)),
                                 e.link.identifier>> : e \in dir.entries})]

\* impl Serialize for Dir: DirSerializable { metadata, entries }
DirSerialize(dir) ==
    [form |-> "Dir",
     metadata |-> dir.metadata,
     entries |-> BTreeCollect({<<to_string(e.key), e.link.identifier>> :
                                  e \in dir.entries})]

\* impl Serialize for File: FileSerializable { metadata, content }
FileSerialize(file) ==
    [form |-> "File", metadata |-> file.metadata, content |-> file.content]

\* Dir::try_from_serializable: every string is parsed as a PathSegment and
\* the pairs are collected into the HashMap in their order
RECURSIVE CollectEntries(_, _, _)
CollectEntries(dir, entries, i) ==
    IF i > Len(entries) THEN dir
    ELSE CollectEntries(DirPut(dir, SegmentTryFrom(entries[i][1]),
                               entries[i][2]),
                        entries, i + 1)

try_from_serializable(serializable) ==
    IF \E i \in 1..Len(serializable.entries) :
           ~validate(serializable.entries[i][1])
    THEN [kind |-> "Err", err |-> "InvalidPathSegment", path |-> <<>>]
    ELSE [kind |-> "Ok",
          dir |-> CollectEntries(
                      [metadata |-> serializable.metadata, entries |-> {}],
                      serializable.entries, 1)]

\* the Cid of a block: the digest of its bytes, taken as injective
CidOf(node) == [digest |-> node]

\* IpldStore::put_node on a plain store: the block is added under its Cid
put_node(blocks, node) == blocks \cup {[cid |-> CidOf(node), node |-> node]}

\* IpldStore::get_node::<T>: the block under the Cid, decoded as the form T
get_node(blocks, cid, form) ==
    IF \E b \in blocks : b.cid = cid /\ b.node.form = form
    THEN [kind |-> "Ok",
          node |-> (CHOOSE b \in blocks : b.cid = cid /\ b.node.form = form).node]
    ELSE [kind |-> "Err", err |-> "StoreError", path |-> <<>>]

\* Storable::store for Dir
DirStore(blocks, dir) == put_node(blocks, DirSerialize(dir))

\* Storable::load for Dir
DirLoad(blocks, cid) ==
    IF get_node(blocks, cid, "Dir").kind = "Ok"
    THEN try_from_serializable(get_node(blocks, cid, "Dir").node)
    ELSE get_node(blocks, cid, "Dir")

\* impl PartialEq for Link: the identifiers are compared
LinkEq(x, y) == x.identifier = y.identifier

\* impl PartialEq for DirInner: metadata, then the two HashMaps
DirEq(x, y) ==
    /\ x.metadata = y.metadata
    /\ Cardinality(x.entries) = Cardinality(y.entries)
    /\ \A e \in x.entries :
           /\ DirGet(y, e.key).some
           /\ LinkEq(DirGet(y, e.key).link, e.link)

\* the nodes stored before the client starts: a file with content, an empty
\* directory and a symlink
\* the Cid of the stored file's byte stream
ContentCid == 2
StoredFile == [metadata |-> MetadataNew("File", 0), content |-> ContentCid]
StoredDir == DirNew(0)
StoredSymlink ==
    [form |-> "Symlink", metadata |-> MetadataNew("Symlink", 0),
     link |-> <<Named("a")>>]
InitialBlocks ==
    put_node(put_node(put_node({}, FileSerialize(StoredFile)),
                      DirSerialize(StoredDir)),
             StoredSymlink)
StoredCids == {b.cid : b \in InitialBlocks}

\* MemoryBufferStore::new: an empty front store before the backing store
HandleNames == {"cur", "other"}
StoreNew == [backing |-> InitialBlocks, fronts |-> [h \in HandleNames |-> {}]]

----------------------------------------------------------------------------
(* Shared interiors: Dir { inner: Arc<DirInner> }, File { inner: Arc<FileInner> } *)

\* the references to nodes the client holds, and an allocation for each
RefNames == {"x", "y"}
NoCell == 0
CellIds == 1..Cardinality(RefNames)
FreeCell == [strong |-> 0]
HeapNew == [c \in CellIds |-> FreeCell]
NoOp == [kind |-> "none"]

\* Arc::new: the interior goes into a free allocation with one strong reference
ArcNew(h, inner) ==
    LET c == CHOOSE c \in CellIds :
                 /\ h[c].strong = 0
                 /\ \A d \in CellIds : h[d].strong = 0 => c <= d
    IN  [heap |-> [h EXCEPT ![c] = [strong |-> 1, inner |-> inner]],
         cell |-> c]

\* Arc::clone: one more strong reference to the same allocation
ArcClone(h, c) == [h EXCEPT ![c].strong = @ + 1]

\* Drop for Arc: the allocation is freed with its last strong reference
ArcDrop(h, c) ==
    IF h[c].strong = 1 THEN [h EXCEPT ![c] = FreeCell]
    ELSE [h EXCEPT ![c].strong = @ - 1]

\* derive(Clone) for DirInner / FileInner: a HashMap of links is cloned link
\* by link (Clone for Link: the same identifier, an empty cache)
InnerClone(inner) ==
    IF inner.metadata.entity_type = "Dir" THEN fork(inner) ELSE inner

\* make_mut that hands out the shared interior itself
make_mut_in_place(h, c) == [heap |-> h, cell |-> c]

\* Arc::make_mut: the interior itself when the reference is unique, else a
\* clone of it in a new allocation, this reference leaving the old one
make_mut(h, c) ==
    IF h[c].strong = 1 THEN [heap |-> h, cell |-> c]
    ELSE ArcNew(ArcDrop(h, c), InnerClone(h[c].inner))

\* the interior as a mutation m = make_mut(..) leaves it once f is written
WriteInner(m, inner) == [m EXCEPT !.heap[m.cell].inner = inner]

\* Dir::put through a reference
ArcPut(h, c, name, cid) ==
    WriteInner(make_mut(h, c),
               DirPut(make_mut(h, c).heap[make_mut(h, c).cell].inner, name, cid))

\* File::truncate through a reference
ArcTruncate(h, c) ==
    WriteInner(make_mut(h, c),
               truncate(make_mut(h, c).heap[make_mut(h, c).cell].inner))

----------------------------------------------------------------------------
(* Link caches: link/link.rs, link/cidlink.rs.  Cached<T> is an             *)
(* async_once_cell::OnceCell<T>: a value written at most once and a lock    *)
(* held by the one task whose initializing future is being polled.          *)

\* the tasks resolving the shared link
TaskNames == {"t1", "t2", "t3"}
NoLink == [variant |-> "NoLink"]
NoValue == [variant |-> "None"]
\* a task before its first call: `last` is how its previous call ended,
\* `waited` whether its current call has waited for the lock
TaskIdle == [pc |-> "idle", last |-> "none", waited |-> FALSE]

\* OnceCell::new
OnceCellNew == [value |-> NoValue, busy |-> FALSE]

\* From<Cid> for CidLink<T>, T the Dir or the Entity the link loads
CidLinkFrom(target, cid) ==
    [target |-> target, identifier |-> cid, cached |-> OnceCellNew]

\* Link::get_cached: OnceCell::get
get_cached(l) ==
    IF l.cached.value = NoValue THEN None ELSE Some(l.cached.value)

\* the first poll of get_or_try_init that never waits for the lock
get_or_try_init_unlocked(cell) ==
    IF cell.value # NoValue THEN [pc |-> "ready", cell |-> cell]
    ELSE [pc |-> "init", cell |-> [cell EXCEPT !.busy = TRUE]]

\* OnceCell::get_or_try_init, a poll before the task's own future runs: the
\* value when there is one, else the lock when it is free, else a wait
get_or_try_init(cell) ==
    IF cell.value # NoValue THEN [pc |-> "ready", cell |-> cell]
    ELSE IF cell.busy THEN [pc |-> "wait", cell |-> cell]
    ELSE [pc |-> "init", cell |-> [cell EXCEPT !.busy = TRUE]]

\* init_done that keeps the lock after a failed future
init_done_poisons(cell, outcome) ==
    IF outcome.kind = "Ok"
    THEN [value |-> outcome.dir, busy |-> FALSE]
    ELSE cell

\* OnceCell::get_or_try_init, the end of the task's own future: Ok writes
\* the value; an error or a panic writes nothing; the lock is released
init_done(cell, outcome) ==
    IF outcome.kind = "Ok"
    THEN [value |-> outcome.dir, busy |-> FALSE]
    ELSE [value |-> NoValue, busy |-> FALSE]

\* the future resolve hands to get_or_try_init: Dir::load for a DirCidLink,
\* Entity::load for an EntityCidLink
LinkLoad(l, blocks) ==
    IF l.target = "Dir" THEN DirLoad(blocks, l.identifier)
    ELSE EntityLoad(l.identifier)

\* what resolve returns for the outcome of get_or_try_init(..).await
\* (map_err(Into::into) keeps the error)
ResolveReturn(outcome) == outcome

----------------------------------------------------------------------------
(* Path::canonicalize and the comparisons of paths: path.rs *)

\* the segment strings of the paths a client canonicalizes and compares
DotSegments == {".", "..", "a", "A", "b"}
NoParsed == [variant |-> "NoParsed"]

\* Path::canonicalize that steps over a `..` with nothing left to pop
RECURSIVE canonicalize_lenient(_, _, _)
canonicalize_lenient(path, i, resolved_segments) ==
    IF i > Len(path) THEN [kind |-> "Ok", path |-> resolved_segments]
    ELSE CASE path[i].tag = "CurrentDir" ->
                IF i = 1
                THEN [kind |-> "Err", err |-> "LeadingCurrentDir", path |-> <<>>]
                ELSE canonicalize_lenient(path, i + 1, resolved_segments)
           [] path[i].tag = "ParentDir" ->
                IF resolved_segments = <<>>
                THEN canonicalize_lenient(path, i + 1, resolved_segments)
                ELSE canonicalize_lenient(path, i + 1,
                         SubSeq(resolved_segments, 1,
                                Len(resolved_segments) - 1))
           [] OTHER ->
                canonicalize_lenient(path, i + 1,
                                     Append(resolved_segments, Named(path[i].s)))

\* Path::canonicalize, the loop from segment i on with the segments
\* resolved so far
RECURSIVE canonicalize(_, _, _)
canonicalize(path, i, resolved_segments) ==
    IF i > Len(path) THEN [kind |-> "Ok", path |-> resolved_segments]
    ELSE CASE path[i].tag = "CurrentDir" ->
                IF i = 1
                THEN [kind |-> "Err", err |-> "LeadingCurrentDir", path |-> <<>>]
                ELSE canonicalize(path, i + 1, resolved_segments)
           [] path[i].tag = "ParentDir" ->
                IF resolved_segments = <<>>
                THEN [kind |-> "Err", err |-> "OutOfBoundsParentDir",
                      path |-> <<>>]
                ELSE canonicalize(path, i + 1,
                         SubSeq(resolved_segments, 1,
                                Len(resolved_segments) - 1))
           [] OTHER ->
                canonicalize(path, i + 1,
                             Append(resolved_segments, Named(path[i].s)))

\* PathSegment::as_str
as_str(seg) == seg.s

\* Ord for PathSegment that compares the strings as written
SegmentCmpCased(x, y) ==
    IF StrRank(as_str(x)) < StrRank(as_str(y)) THEN "Less"
    ELSE IF StrRank(as_str(x)) > StrRank(as_str(y)) THEN "Greater"
    ELSE "Equal"

\* impl Ord for PathSegment: the canonical strings are compared
SegmentCmp(x, y) ==
    IF StrRank(as_str(canonicalize_segment(x)))
           < StrRank(as_str(canonicalize_segment(y))) THEN "Less"
    ELSE IF StrRank(as_str(canonicalize_segment(x)))
                > StrRank(as_str(canonicalize_segment(y))) THEN "Greater"
    ELSE "Equal"

\* derived Ord for Path: Ord for Vec, lexicographic from segment i on
RECURSIVE PathCmp(_, _, _)
PathCmp(p, q, i) ==
    IF i > Len(p) /\ i > Len(q) THEN "Equal"
    ELSE IF i > Len(p) THEN "Less"
    ELSE IF i > Len(q) THEN "Greater"
    ELSE IF SegmentCmp(p[i], q[i]) # "Equal" THEN SegmentCmp(p[i], q[i])
    ELSE PathCmp(p, q, i + 1)

\* impl Hash for PathSegment: what is written to the hasher
SegmentHash(seg) == as_str(canonicalize_segment(seg))

\* derived Hash for Path: Hash for Vec writes the length, then the segments
PathHash(p) == <<Len(p)>> \o [i \in 1..Len(p) |-> SegmentHash(p[i])]

----------------------------------------------------------------------------
(* File input streams: file/io.rs *)

NoStream == [variant |-> "NoStream"]
\* the bytes of the file the stream reads
FileContent == <<1, 2, 3, 4, 5>>

\* Result<BytesMut, StreamError>
BufOk(bytes) == [kind |-> "Ok", bytes |-> bytes]
BufErr == [kind |-> "Err", err |-> "IoError"]

\* FileInputStream::from: a reader over the content (an empty reader for a
\* file without content) and an empty buffer
StreamFrom(content) == [buffer |-> BufOk(<<>>), content |-> content, pos |-> 0]

\* the bytes one read_buf may bring: none at the end of the content, else
\* at least one and at most the space of the buffer passed in
ChunkLens(s) ==
    IF s.pos = Len(s.content) THEN {0}
    ELSE 1..(IF Len(s.content) - s.pos < MaxChunk
             THEN Len(s.content) - s.pos ELSE MaxChunk)

\* Await::wait: the next chunk is read into a fresh BytesMut, which
\* replaces the buffer; a failed read leaves the error in the buffer
wait(s, n, fails) ==
    IF fails THEN [s EXCEPT !.buffer = BufErr]
    ELSE [s EXCEPT !.buffer = BufOk(SubSeq(s.content, s.pos + 1, s.pos + n)),
                   !.pos = s.pos + n]

\* FileInputStream::take_buffer
take_buffer(s, len) ==
    IF s.buffer.kind = "Ok"
    THEN IF Len(s.buffer.bytes) > len
         THEN [stream |-> [s EXCEPT !.buffer =
                   BufOk(SubSeq(s.buffer.bytes, len + 1, Len(s.buffer.bytes)))],
               ret |-> BufOk(SubSeq(s.buffer.bytes, 1, len))]
         ELSE [stream |-> [s EXCEPT !.buffer = BufOk(<<>>)],
               ret |-> BufOk(s.buffer.bytes)]
    ELSE [stream |-> [s EXCEPT !.buffer = BufOk(<<>>)], ret |-> s.buffer]

\* InputStream::read
read(s, len) == take_buffer(s, len)

\* InputStream::skip: the count of the bytes taken
skip(s, len) ==
    [stream |-> take_buffer(s, len).stream,
     ret |-> IF take_buffer(s, len).ret.kind = "Ok"
             THEN [kind |-> "Ok", count |-> Len(take_buffer(s, len).ret.bytes)]
             ELSE take_buffer(s, len).ret]

----------------------------------------------------------------------------
(* The in-memory block store: store/mem_block_store.rs *)

ClientNames == {"c1", "c2"}
BlockIds == {"i", "j"}
BlockData == {"d", "e"}
NoBlock == [some |-> FALSE]
CallIdle == [pc |-> "idle"]

\* HashMap::new
HashMapNew == [id \in BlockIds |-> NoBlock]
\* RwLock::new
RwLockNew == [writer |-> FALSE, readers |-> 0]

\* the calls a client makes
BlockCalls ==
    [kind : {"read_block", "delete_block"}, id : BlockIds]
    \cup [kind : {"write_block"}, id : BlockIds, data : BlockData]

\* RwLock::read resolves: no writer holds the lock
read_ready(lock) == ~lock.writer

\* a write lock granted while readers hold the lock
write_ready_among_readers(lock) == ~lock.writer

\* RwLock::write resolves: nobody holds the lock
write_ready(lock) == ~lock.writer /\ lock.readers = 0

\* the guard a call takes: blocks.read() or blocks.write()
IsRead(call) == call.kind = "read_block"
acquire(lock, call) ==
    IF IsRead(call) THEN [lock EXCEPT !.readers = @ + 1]
    ELSE [lock EXCEPT !.writer = TRUE]
\* the guard dropped at the end of the async block
release(lock, call) ==
    IF IsRead(call) THEN [lock EXCEPT !.readers = @ - 1]
    ELSE [lock EXCEPT !.writer = FALSE]

BlockNotFound(id) == [kind |-> "Err", err |-> "BlockNotFound", block_id |-> id]

\* the body of read_block / write_block / delete_block under its guard: the
\* map it leaves and the result it returns
block_body(map, call) ==
    CASE call.kind = "read_block" ->
           [map |-> map,
            ret |-> IF map[call.id].some
                    THEN [kind |-> "Ok", data |-> map[call.id].data]
                    ELSE BlockNotFound(call.id)]
      [] call.kind = "write_block" ->
           [map |-> [map EXCEPT ![call.id] = [some |-> TRUE, data |-> call.data]],
            ret |-> [kind |-> "Ok"]]
      [] OTHER ->
           [map |-> [map EXCEPT ![call.id] = NoBlock],
            ret |-> IF map[call.id].some THEN [kind |-> "Ok"]
                    ELSE BlockNotFound(call.id)]

----------------------------------------------------------------------------
(* The state machine *)

\* the names the client puts into its directory
PutNames == {"A", "b"}

CanonicalPath(path) == [i \in 1..Len(path) |-> canonicalize_segment(path[i])]

Init ==
    /\ root = DirNew(0)
    /\ workdir = DirNew(0)
    /\ cur = NoHandle
    /\ result = Idle
    /\ created = NoPath
    /\ store = StoreNew
    /\ other = NoHandle
    /\ twin = NoDir
    /\ heap = HeapNew
    /\ refs = [r \in RefNames |-> NoCell]
    /\ op = NoOp
    /\ cidlink = NoLink
    /\ tasks = [t \in TaskNames |-> TaskIdle]
    /\ fills = <<>>
    /\ stream = NoStream
    /\ taken = <<>>
    /\ memblocks = HashMapNew
    /\ rwlock = RwLockNew
    /\ calls = [c \in ClientNames |-> CallIdle]
    /\ ledger = [id \in BlockIds |-> [kind |-> "none"]]
    /\ parsed = NoParsed
    /\ pathop = NoOp

\* dir.put(name, cid) on the directory under construction
Put ==
    /\ workdir # NoDir
    /\ \E name \in PutNames, cid \in Cids :
         workdir' = DirPut(workdir, SegmentTryFrom(name), cid)
    /\ UNCHANGED <<root, cur, result, created>>
    /\ UNCHANGED <<shareVars, nodeVars>>
    /\ UNCHANGED unitVars

\* root_dir.make_handle(flags); the directory under construction is dropped
MakeHandle ==
    /\ cur = NoHandle
    /\ \E flags \in DescriptorFlags : cur' = make_handle(root, flags)
    /\ workdir' = NoDir
    /\ UNCHANGED <<root, result, created>>
    /\ UNCHANGED <<shareVars, nodeVars>>
    /\ UNCHANGED unitVars

\* DirHandle::from(dir, None, flags, root, None): the directory under
\* construction moves into the handle
WrapHandle ==
    /\ cur = NoHandle
    /\ workdir # NoDir
    /\ \E flags \in DescriptorFlags :
         cur' = HandleFrom(workdir, None, flags, <<>>)
    /\ workdir' = NoDir
    /\ UNCHANGED <<root, result, created>>
    /\ UNCHANGED <<shareVars, nodeVars>>
    /\ UNCHANGED unitVars

\* cur.open_at(path, open_flags, descriptor_flags, ucan)
OpenAt ==
    /\ cur # NoHandle
    /\ result = Idle
    /\ \E raw \in RawPaths, open_flags \in OpenFlags,
          descriptor_flags \in DescriptorFlags, now \in Times,
          overflow_checks \in BOOLEAN :
         LET r == open_at(cur, raw, open_flags, descriptor_flags, now,
                          overflow_checks)
         IN  /\ result' = [kind |-> "Returned",
                           self |-> cur,
                           raw |-> raw,
                           open_flags |-> open_flags,
                           descriptor_flags |-> descriptor_flags,
                           res |-> r.res,
                           traced |-> r.traced,
                           before |-> created]
             /\ created' = IF r.res.kind = "Ok" /\ contains(open_flags, CREATE)
                           THEN Some(CanonicalPath(PathTryFrom(raw).path))
                           ELSE created
    /\ UNCHANGED <<root, workdir, cur>>
    /\ UNCHANGED <<shareVars, nodeVars>>
    /\ UNCHANGED unitVars

\* the client consumes the outcome: a handle on a directory becomes, through
\* EntityHandle::as_dir, the handle of the next calls; anything else is dropped
Release ==
    /\ result # Idle
    /\ result' = Idle
    /\ IF result.res.kind = "Ok" /\ result.res.handle.entity.variant = "Dir"
       THEN /\ cur' = [result.res.handle EXCEPT !.entity = @.node]
            /\ created' = NoPath
       ELSE UNCHANGED <<cur, created>>
    /\ UNCHANGED <<root, workdir>>
    /\ UNCHANGED <<shareVars, nodeVars>>
    /\ UNCHANGED unitVars

Next == Put \/ MakeHandle \/ WrapHandle \/ OpenAt \/ Release

Spec == Init /\ [][Next]_vars

----------------------------------------------------------------------------
(* Two handles on one RootDir *)

\* the flags of the calls made through the two handles
ShareOpenFlags == {0, CREATE, TRUNCATE, CREATE + TRUNCATE}
ShareDescriptorFlags == {READ, READ + WRITE}
ShareHandleFlags == {READ, READ + MUTATE_DIR}
\* the paths of those calls: empty, one segment, two segments in two letter
\* cases, and one that does not parse
SharePaths == {<<>>, <<"a">>, <<"a", "b">>, <<"A", "b">>, <<"?">>}

HandleOf(who) == IF who = "cur" THEN cur ELSE other

\* root_dir.make_handle(flags), a second time
MakeOther ==
    /\ other = NoHandle
    /\ \E flags \in ShareHandleFlags : other' = make_handle(root, flags)
    /\ UNCHANGED <<openVars, store, nodeVars>>
    /\ UNCHANGED unitVars

\* OpenAtVia with the file a CREATE makes written to the handle's front store
OpenAtViaPublishes ==
    /\ result = Idle
    /\ \E who \in HandleNames, raw \in SharePaths, open_flags \in ShareOpenFlags,
          descriptor_flags \in ShareDescriptorFlags, now \in Times,
          overflow_checks \in BOOLEAN :
         /\ HandleOf(who) # NoHandle
         /\ LET r == open_at(HandleOf(who), raw, open_flags, descriptor_flags,
                             now, overflow_checks)
            IN  /\ result' = [kind |-> "Returned",
                              who |-> who,
                              self |-> HandleOf(who),
                              raw |-> raw,
                              open_flags |-> open_flags,
                              descriptor_flags |-> descriptor_flags,
                              res |-> r.res,
                              traced |-> r.traced,
                              before |-> created]
                /\ created' = IF /\ who = "cur"
                                 /\ r.res.kind = "Ok"
                                 /\ contains(open_flags, CREATE)
                              THEN Some(CanonicalPath(PathTryFrom(raw).path))
                              ELSE created
                /\ store' = IF r.res.kind = "Ok" /\ contains(open_flags, CREATE)
                            THEN [store EXCEPT !.fronts[who] =
                                     put_node(@, FileSerialize(
                                                     r.res.handle.entity.node))]
                            ELSE store
    /\ UNCHANGED <<root, workdir, cur, other, nodeVars>>
    /\ UNCHANGED unitVars

\* HandleOf(who).open_at(path, open_flags, descriptor_flags, ucan)
OpenAtVia ==
    /\ result = Idle
    /\ \E who \in HandleNames, raw \in SharePaths, open_flags \in ShareOpenFlags,
          descriptor_flags \in ShareDescriptorFlags, now \in Times,
          overflow_checks \in BOOLEAN :
         /\ HandleOf(who) # NoHandle
         /\ LET r == open_at(HandleOf(who), raw, open_flags, descriptor_flags,
                             now, overflow_checks)
            IN  /\ result' = [kind |-> "Returned",
                              who |-> who,
                              self |-> HandleOf(who),
                              raw |-> raw,
                              open_flags |-> open_flags,
                              descriptor_flags |-> descriptor_flags,
                              res |-> r.res,
                              traced |-> r.traced,
                              before |-> created]
                /\ created' = IF /\ who = "cur"
                                 /\ r.res.kind = "Ok"
                                 /\ contains(open_flags, CREATE)
                              THEN Some(CanonicalPath(PathTryFrom(raw).path))
                              ELSE created
    /\ UNCHANGED <<root, workdir, cur, store, other, nodeVars>>
    /\ UNCHANGED unitVars

NextShare == MakeHandle \/ MakeOther \/ OpenAtVia \/ Release

SpecShare == Init /\ [][NextShare]_vars

----------------------------------------------------------------------------
(* Clones of a node and mutation through one of them *)

\* the names and Cids the client puts through a reference
CowNames == {"a", "A"}
EntryCids == {1, 2}

Bound(r) == refs[r] # NoCell
Observe(r) == heap[refs[r]].inner
IsDir(r) == Observe(r).metadata.entity_type = "Dir"

\* let r = Dir::new(store)
NewDir ==
    /\ \E r \in RefNames, now \in Times :
         /\ ~Bound(r)
         /\ heap' = ArcNew(heap, DirNew(now)).heap
         /\ refs' = [refs EXCEPT ![r] = ArcNew(heap, DirNew(now)).cell]
         /\ op' = [kind |-> "new", ref |-> r]
    /\ UNCHANGED <<openVars, shareVars, twin>>
    /\ UNCHANGED unitVars

\* let r = File::load(cid, store) of the file the store holds
LoadFile ==
    /\ \E r \in RefNames :
         /\ ~Bound(r)
         /\ get_node(store.backing, CidOf(FileSerialize(StoredFile)),
                     "File").kind = "Ok"
         /\ heap' = ArcNew(heap, StoredFile).heap
         /\ refs' = [refs EXCEPT ![r] = ArcNew(heap, StoredFile).cell]
         /\ op' = [kind |-> "load", ref |-> r]
    /\ UNCHANGED <<openVars, shareVars, twin>>
    /\ UNCHANGED unitVars

\* let r2 = r.clone()
CloneRef ==
    /\ \E r \in RefNames, r2 \in RefNames :
         /\ Bound(r)
         /\ ~Bound(r2)
         /\ heap' = ArcClone(heap, refs[r])
         /\ refs' = [refs EXCEPT ![r2] = refs[r]]
         /\ op' = [kind |-> "clone", ref |-> r2]
    /\ UNCHANGED <<openVars, shareVars, twin>>
    /\ UNCHANGED unitVars

\* drop(r)
DropRef ==
    /\ \E r \in RefNames :
         /\ Bound(r)
         /\ heap' = ArcDrop(heap, refs[r])
         /\ refs' = [refs EXCEPT ![r] = NoCell]
         /\ op' = [kind |-> "drop", ref |-> r]
    /\ UNCHANGED <<openVars, shareVars, twin>>
    /\ UNCHANGED unitVars

\* r.put(name, cid)
PutRef ==
    /\ \E r \in RefNames, name \in CowNames, cid \in EntryCids :
         /\ Bound(r)
         /\ IsDir(r)
         /\ heap' = ArcPut(heap, refs[r], SegmentTryFrom(name), cid).heap
         /\ refs' = [refs EXCEPT ![r] =
                        ArcPut(heap, refs[r], SegmentTryFrom(name), cid).cell]
         /\ op' = [kind |-> "put", ref |-> r, name |-> SegmentTryFrom(name),
                   cid |-> cid, shared |-> heap[refs[r]].strong > 1]
    /\ UNCHANGED <<openVars, shareVars, twin>>
    /\ UNCHANGED unitVars

\* r.truncate()
TruncateRef ==
    /\ \E r \in RefNames :
         /\ Bound(r)
         /\ ~IsDir(r)
         /\ heap' = ArcTruncate(heap, refs[r]).heap
         /\ refs' = [refs EXCEPT ![r] = ArcTruncate(heap, refs[r]).cell]
         /\ op' = [kind |-> "truncate", ref |-> r,
                   shared |-> heap[refs[r]].strong > 1]
    /\ UNCHANGED <<openVars, shareVars, twin>>
    /\ UNCHANGED unitVars

NextCow == NewDir \/ LoadFile \/ CloneRef \/ DropRef \/ PutRef \/ TruncateRef

SpecCow == Init /\ [][NextCow]_vars

----------------------------------------------------------------------------
(* A directory whose entries name stored nodes *)

\* the descriptor flags asked of the calls on such a directory
TreeDescriptorFlags == {READ}

\* dir.put(name, cid) with the Cid of a stored file, directory or symlink
PutStored ==
    /\ workdir # NoDir
    /\ \E name \in PutNames, cid \in StoredCids :
         workdir' = DirPut(workdir, SegmentTryFrom(name), cid)
    /\ UNCHANGED <<root, cur, result, created>>
    /\ UNCHANGED <<shareVars, nodeVars>>
    /\ UNCHANGED unitVars

\* cur.open_at(path, open_flags, READ, ucan)
OpenAtTree ==
    /\ cur # NoHandle
    /\ result = Idle
    /\ \E raw \in RawPaths, open_flags \in OpenFlags,
          descriptor_flags \in TreeDescriptorFlags, now \in Times,
          overflow_checks \in BOOLEAN :
         LET r == open_at(cur, raw, open_flags, descriptor_flags, now,
                          overflow_checks)
         IN  /\ result' = [kind |-> "Returned",
                           self |-> cur,
                           raw |-> raw,
                           open_flags |-> open_flags,
                           descriptor_flags |-> descriptor_flags,
                           res |-> r.res,
                           traced |-> r.traced,
                           before |-> created]
             /\ created' = IF r.res.kind = "Ok" /\ contains(open_flags, CREATE)
                           THEN Some(CanonicalPath(PathTryFrom(raw).path))
                           ELSE created
    /\ UNCHANGED <<root, workdir, cur>>
    /\ UNCHANGED <<shareVars, nodeVars>>
    /\ UNCHANGED unitVars

NextTree == PutStored \/ WrapHandle \/ OpenAtTree \/ Release

SpecTree == Init /\ [][NextTree]_vars

----------------------------------------------------------------------------
(* Two directories built by puts, stored and loaded *)

DirOf(which) == IF which = "workdir" THEN workdir ELSE twin

\* workdir.put(name, cid)
PutEntry ==
    /\ workdir # NoDir
    /\ \E name \in RawSegments, cid \in EntryCids :
         /\ workdir' = DirPut(workdir, SegmentTryFrom(name), cid)
         /\ op' = [kind |-> "put", name |-> SegmentTryFrom(name), cid |-> cid]
    /\ UNCHANGED <<root, cur, result, created, shareVars, twin, heap, refs>>
    /\ UNCHANGED unitVars

\* let twin = Dir::new(store)
NewTwin ==
    /\ twin = NoDir
    /\ \E now \in Times : twin' = DirNew(now)
    /\ op' = [kind |-> "twin"]
    /\ UNCHANGED <<openVars, shareVars, heap, refs>>
    /\ UNCHANGED unitVars

\* let twin = workdir.clone()
CloneDir ==
    /\ twin = NoDir
    /\ workdir # NoDir
    /\ twin' = workdir
    /\ op' = [kind |-> "twin"]
    /\ UNCHANGED <<openVars, shareVars, heap, refs>>
    /\ UNCHANGED unitVars

\* twin.put(name, cid)
PutTwin ==
    /\ twin # NoDir
    /\ \E name \in RawSegments, cid \in EntryCids :
         twin' = DirPut(twin, SegmentTryFrom(name), cid)
    /\ op' = [kind |-> "twin"]
    /\ UNCHANGED <<openVars, shareVars, heap, refs>>
    /\ UNCHANGED unitVars

\* let cid = d.store().await?; let loaded = Dir::load(&cid, store).await
StoreLoad ==
    /\ Cardinality(store.backing) < Cardinality(InitialBlocks) + MaxStored
    /\ \E which \in {"workdir", "twin"} :
         /\ DirOf(which) # NoDir
         /\ store' = [store EXCEPT !.backing = DirStore(@, DirOf(which))]
         /\ op' = [kind |-> "store_load",
                   which |-> which,
                   loaded |-> DirLoad(DirStore(store.backing, DirOf(which)),
                                      CidOf(DirSerialize(DirOf(which))))]
    /\ UNCHANGED <<openVars, other, twin, heap, refs>>
    /\ UNCHANGED unitVars

NextDir == PutEntry \/ NewTwin \/ CloneDir \/ PutTwin \/ StoreLoad

SpecDir == Init /\ [][NextDir]_vars

----------------------------------------------------------------------------
(* Tasks resolving one link: link/cidlink.rs *)

\* a directory stored only after the link to it was made
LaterDir == DirPut(DirNew(0), Named("a"), 1)
LinkTargets == {"Dir", "Entity"}
LinkCids == {CidOf(DirSerialize(StoredDir)), CidOf(DirSerialize(LaterDir))}

\* a task after a poll of get_or_try_init that did not run its own future
Polled(task, pc, value, waited) ==
    IF pc = "ready"
    THEN [pc |-> "done", last |-> task.last, waited |-> waited,
          ret |-> ResolveReturn([kind |-> "Ok", dir |-> value])]
    ELSE [pc |-> pc, last |-> task.last, waited |-> waited]

\* the link is made from a Cid
NewLink ==
    /\ cidlink = NoLink
    /\ \E target \in LinkTargets, cid \in LinkCids :
           cidlink' = CidLinkFrom(target, cid)
    /\ UNCHANGED <<tasks, fills>>
    /\ UNCHANGED <<openVars, shareVars, nodeVars>>
    /\ UNCHANGED <<streamVars, blockVars, pathVars>>

\* somebody stores the later directory in the store the tasks resolve with
StoreLater ==
    /\ Cardinality(store.backing) < Cardinality(InitialBlocks) + MaxStored
    /\ store' = [store EXCEPT !.backing = DirStore(@, LaterDir)]
    /\ store' # store
    /\ UNCHANGED <<openVars, other, nodeVars, linkVars>>
    /\ UNCHANGED <<streamVars, blockVars, pathVars>>

\* a task calls link.resolve(store) and polls it for the first time
ResolveCall ==
    /\ cidlink # NoLink
    /\ \E t \in TaskNames :
           /\ tasks[t].pc = "idle"
           /\ cidlink' = [cidlink EXCEPT !.cached = get_or_try_init(@).cell]
           /\ tasks' = [tasks EXCEPT ![t] =
                 Polled(tasks[t], get_or_try_init(cidlink.cached).pc,
                        cidlink.cached.value, FALSE)]
    /\ UNCHANGED fills
    /\ UNCHANGED <<openVars, shareVars, nodeVars>>
    /\ UNCHANGED <<streamVars, blockVars, pathVars>>

\* a waiting task is polled again after the lock was released
ResolveWake ==
    /\ \E t \in TaskNames :
           /\ tasks[t].pc = "wait"
           /\ get_or_try_init(cidlink.cached).pc # "wait"
           /\ cidlink' = [cidlink EXCEPT !.cached = get_or_try_init(@).cell]
           /\ tasks' = [tasks EXCEPT ![t] =
                 Polled(tasks[t], get_or_try_init(cidlink.cached).pc,
                        cidlink.cached.value, TRUE)]
    /\ UNCHANGED fills
    /\ UNCHANGED <<openVars, shareVars, nodeVars>>
    /\ UNCHANGED <<streamVars, blockVars, pathVars>>

\* the load of the task holding the lock ends: with the loaded value, with
\* an error or with a panic
LoadEnd ==
    /\ \E t \in TaskNames :
           /\ tasks[t].pc = "init"
           /\ cidlink' = [cidlink EXCEPT !.cached =
                          init_done(@, LinkLoad(cidlink, store.backing))]
           /\ tasks' = [tasks EXCEPT ![t] =
                 [pc |-> "done", last |-> tasks[t].last,
                  waited |-> tasks[t].waited,
                  ret |-> ResolveReturn(LinkLoad(cidlink, store.backing))]]
           /\ fills' = IF LinkLoad(cidlink, store.backing).kind = "Ok"
                       THEN Append(fills, LinkLoad(cidlink, store.backing).dir)
                       ELSE fills
    /\ UNCHANGED <<openVars, shareVars, nodeVars>>
    /\ UNCHANGED <<streamVars, blockVars, pathVars>>

\* a task takes the result of its call and may call again
ResolveTaken ==
    /\ \E t \in TaskNames :
           /\ tasks[t].pc = "done"
           /\ tasks' = [tasks EXCEPT ![t] =
                 [pc |-> "idle", last |-> tasks[t].ret.kind, waited |-> FALSE]]
    /\ UNCHANGED <<cidlink, fills>>
    /\ UNCHANGED <<openVars, shareVars, nodeVars>>
    /\ UNCHANGED <<streamVars, blockVars, pathVars>>

NextLink ==
    NewLink \/ StoreLater \/ ResolveCall \/ ResolveWake \/ LoadEnd
    \/ ResolveTaken

SpecLink == Init /\ [][NextLink]_vars

----------------------------------------------------------------------------
(* The overlay store of a handle: stores.rs.  MemoryBufferStore delegates   *)
(* every call to DualStore<MemoryStore, S> built with the default           *)
(* configuration: store A, the memory store, takes the writes; a read asks  *)
(* A and then B.                                                            *)

\* a raw block and a byte stream a client writes
RawBlock == [form |-> "Raw", bytes |-> <<1>>]
ByteStream == [form |-> "Bytes", bytes |-> <<1, 2>>]

\* the blocks written through an overlay, by the call that writes them
OverlayWrites ==
    {[call |-> "put_node", node |-> DirSerialize(LaterDir)],
     [call |-> "put_node", node |-> FileSerialize(StoredFile)],
     [call |-> "put_bytes", node |-> ByteStream],
     [call |-> "put_raw_block", node |-> RawBlock]}
OverlayCids == {CidOf(w.node) : w \in OverlayWrites} \cup StoredCids

\* a put of DualStore that writes to store B
dual_put_through(front, backing, node) ==
    [front |-> front, backing |-> put_node(backing, node), cid |-> CidOf(node)]

\* DualStore::put_node / put_bytes / put_raw_block with
\* DualStoreConfig::default(): the block goes to store A
dual_put(front, backing, node) ==
    [front |-> put_node(front, node), backing |-> backing, cid |-> CidOf(node)]

\* DualStore::get_raw_block / get_bytes / get_node: store A, then store B
\* when A does not have the block
dual_get(front, backing, cid) ==
    IF \E b \in front : b.cid = cid
    THEN [kind |-> "Ok", from |-> "front",
          node |-> (CHOOSE b \in front : b.cid = cid).node]
    ELSE IF \E b \in backing : b.cid = cid
    THEN [kind |-> "Ok", from |-> "backing",
          node |-> (CHOOSE b \in backing : b.cid = cid).node]
    ELSE [kind |-> "Err", err |-> "BlockNotFound", path |-> <<>>]

\* DualStore::has
dual_has(front, backing, cid) ==
    (\E b \in front : b.cid = cid) \/ (\E b \in backing : b.cid = cid)

\* put_node / put_bytes / put_raw_block through the overlay of a handle
OverlayPut ==
    /\ \E who \in HandleNames, w \in OverlayWrites :
         /\ store' = [store EXCEPT
                !.fronts[who] = dual_put(store.fronts[who], store.backing,
                                         w.node).front,
                !.backing = dual_put(store.fronts[who], store.backing,
                                     w.node).backing]
         /\ op' = [kind |-> w.call, who |-> who,
                   cid |-> dual_put(store.fronts[who], store.backing,
                                    w.node).cid]
    /\ UNCHANGED <<openVars, other, twin, heap, refs>>
    /\ UNCHANGED unitVars

\* get_node / get_bytes / get_raw_block and has through the overlay
OverlayGet ==
    /\ \E who \in HandleNames, cid \in OverlayCids :
         op' = [kind |-> "get", who |-> who, cid |-> cid,
                res |-> dual_get(store.fronts[who], store.backing, cid),
                has |-> dual_has(store.fronts[who], store.backing, cid)]
    /\ UNCHANGED <<openVars, shareVars, twin, heap, refs>>
    /\ UNCHANGED unitVars

\* a block is put into the backing store itself, not through an overlay
BackingPut ==
    /\ Cardinality(store.backing) < Cardinality(InitialBlocks) + MaxStored
    /\ \E w \in OverlayWrites :
         /\ store' = [store EXCEPT !.backing = put_node(@, w.node)]
         /\ store' # store
         /\ op' = [kind |-> "backing_put", cid |-> CidOf(w.node)]
    /\ UNCHANGED <<openVars, other, twin, heap, refs>>
    /\ UNCHANGED unitVars

NextOverlay == OverlayPut \/ OverlayGet \/ BackingPut

SpecOverlay == Init /\ [][NextOverlay]_vars

----------------------------------------------------------------------------
(* A client reading a file through a FileInputStream: file/io.rs *)

ReadLens == 1..MaxChunk

\* the bytes a call took, each with the call that took it
TakenBy(call, bytes) ==
    [i \in 1..Len(bytes) |-> [byte |-> bytes[i], by |-> call]]

\* FileInputStream::from(handle)
OpenStream ==
    /\ stream = NoStream
    /\ \E content \in {<<>>, FileContent} : stream' = StreamFrom(content)
    /\ UNCHANGED taken
    /\ UNCHANGED <<openVars, shareVars, nodeVars, linkVars, blockVars>>
    /\ UNCHANGED pathVars

\* stream.wait().await
StreamWait ==
    /\ stream # NoStream
    /\ \E n \in ChunkLens(stream), fails \in BOOLEAN :
           stream' = wait(stream, n, fails)
    /\ UNCHANGED taken
    /\ UNCHANGED <<openVars, shareVars, nodeVars, linkVars, blockVars>>
    /\ UNCHANGED pathVars

\* stream.read(len)
StreamRead ==
    /\ stream # NoStream
    /\ \E len \in ReadLens :
           /\ stream' = read(stream, len).stream
           /\ taken' = IF read(stream, len).ret.kind = "Ok"
                       THEN taken \o TakenBy("read", read(stream, len).ret.bytes)
                       ELSE taken
    /\ UNCHANGED <<openVars, shareVars, nodeVars, linkVars, blockVars>>
    /\ UNCHANGED pathVars

\* stream.skip(len): the bytes counted are those skip took from the buffer
StreamSkip ==
    /\ stream # NoStream
    /\ \E len \in ReadLens :
           /\ stream' = skip(stream, len).stream
           /\ taken' = IF skip(stream, len).ret.kind = "Ok"
                       THEN taken \o
                            TakenBy("skip",
                                    SubSeq(stream.buffer.bytes, 1,
                                           skip(stream, len).ret.count))
                       ELSE taken
    /\ UNCHANGED <<openVars, shareVars, nodeVars, linkVars, blockVars>>
    /\ UNCHANGED pathVars

NextStream == OpenStream \/ StreamWait \/ StreamRead \/ StreamSkip

SpecStream == Init /\ [][NextStream]_vars

----------------------------------------------------------------------------
(* A client parsing, canonicalizing and comparing paths: path.rs *)

\* one path is parsed, to be canonicalized
ParseOne ==
    /\ parsed = NoParsed
    /\ \E raw \in SeqsUpTo(DotSegments, MaxCanonLen) :
           parsed' = [a |-> PathTryFrom(raw).path, b |-> NoPath]
    /\ pathop' = NoOp
    /\ UNCHANGED <<openVars, shareVars, nodeVars, linkVars, streamVars, blockVars>>

\* two paths are parsed, to be compared
ParseTwo ==
    /\ parsed = NoParsed
    /\ \E rawa \in SeqsUpTo(DotSegments, MaxPathLen),
          rawb \in SeqsUpTo(DotSegments, MaxPathLen) :
           parsed' = [a |-> PathTryFrom(rawa).path,
                      b |-> Some(PathTryFrom(rawb).path)]
    /\ pathop' = NoOp
    /\ UNCHANGED <<openVars, shareVars, nodeVars, linkVars, streamVars, blockVars>>

\* a.canonicalize(), and canonicalize() again on a successful result
Canonicalize ==
    /\ parsed # NoParsed
    /\ parsed.b = NoPath
    /\ pathop' =
         [kind |-> "canonicalize",
          res |-> canonicalize(parsed.a, 1, <<>>),
          again |-> IF canonicalize(parsed.a, 1, <<>>).kind = "Ok"
                    THEN canonicalize(canonicalize(parsed.a, 1, <<>>).path,
                                      1, <<>>)
                    ELSE canonicalize(parsed.a, 1, <<>>)]
    /\ UNCHANGED parsed
    /\ UNCHANGED <<openVars, shareVars, nodeVars, linkVars, streamVars, blockVars>>

\* a == b, a.cmp(&b) and the hashes of a and b
Compare ==
    /\ parsed # NoParsed
    /\ parsed.b # NoPath
    /\ pathop' =
         [kind |-> "compare",
          eq |-> PathEq(parsed.a, parsed.b.value),
          cmp |-> PathCmp(parsed.a, parsed.b.value, 1),
          hasha |-> PathHash(parsed.a),
          hashb |-> PathHash(parsed.b.value)]
    /\ UNCHANGED parsed
    /\ UNCHANGED <<openVars, shareVars, nodeVars, linkVars, streamVars, blockVars>>

NextPath == ParseOne \/ ParseTwo \/ Canonicalize \/ Compare

SpecPath == Init /\ [][NextPath]_vars

----------------------------------------------------------------------------
(* Clients calling one MemBlockStore: store/mem_block_store.rs *)

\* a client calls read_block, write_block or delete_block; the future
\* waits for the lock
BlockCall ==
    /\ \E c \in ClientNames, call \in BlockCalls :
         /\ calls[c].pc = "idle"
         /\ calls' = [calls EXCEPT ![c] = [pc |-> "wait", call |-> call]]
    /\ UNCHANGED <<memblocks, rwlock, ledger>>
    /\ UNCHANGED <<openVars, shareVars, nodeVars, linkVars, streamVars, pathVars>>

\* blocks.read().await / blocks.write().await resolves
BlockLock ==
    /\ \E c \in ClientNames :
         /\ calls[c].pc = "wait"
         /\ IF IsRead(calls[c].call) THEN read_ready(rwlock)
            ELSE write_ready(rwlock)
         /\ rwlock' = acquire(rwlock, calls[c].call)
         /\ calls' = [calls EXCEPT ![c].pc = "locked"]
    /\ UNCHANGED <<memblocks, ledger>>
    /\ UNCHANGED <<openVars, shareVars, nodeVars, linkVars, streamVars, pathVars>>

\* the body runs on the map, the guard is dropped and the future resolves
BlockBody ==
    /\ \E c \in ClientNames :
         /\ calls[c].pc = "locked"
         /\ memblocks' = block_body(memblocks, calls[c].call).map
         /\ rwlock' = release(rwlock, calls[c].call)
         /\ calls' = [calls EXCEPT ![c] =
               [pc |-> "done", call |-> calls[c].call,
                ret |-> block_body(memblocks, calls[c].call).ret]]
         /\ ledger' = IF IsRead(calls[c].call) THEN ledger
                      ELSE [ledger EXCEPT ![calls[c].call.id] = calls[c].call]
    /\ UNCHANGED <<openVars, shareVars, nodeVars, linkVars, streamVars, pathVars>>

\* the client takes the result
BlockTaken ==
    /\ \E c \in ClientNames :
         /\ calls[c].pc = "done"
         /\ calls' = [calls EXCEPT ![c] = CallIdle]
    /\ UNCHANGED <<memblocks, rwlock, ledger>>
    /\ UNCHANGED <<openVars, shareVars, nodeVars, linkVars, streamVars, pathVars>>

NextBlock == BlockCall \/ BlockLock \/ BlockBody \/ BlockTaken

SpecBlock == Init /\ [][NextBlock]_vars

----------------------------------------------------------------------------
(* Traces of paths in a directory built by puts: dir/dir.rs *)

\* dir.trace_entity(path) on the directory under construction
TraceEntity ==
    /\ workdir # NoDir
    /\ \E raw \in SeqsUpTo(RawSegments, MaxPathLen),
          overflow_checks \in BOOLEAN :
         op' = [kind |-> "trace_entity", self |-> workdir,
                path |-> PathTryFrom(raw).path,
                res |-> trace_entity(workdir, PathTryFrom(raw).path,
                                     overflow_checks)]
    /\ UNCHANGED <<openVars, shareVars, twin, heap, refs>>
    /\ UNCHANGED unitVars

NextTrace == PutStored \/ TraceEntity

SpecTrace == Init /\ [][NextTrace]_vars

----------------------------------------------------------------------------
(* open_at on paths with `.` and `..` segments: dir/op_open_at.rs *)

\* the flags of the calls made with such paths
DotOpenFlags == {0, CREATE, CREATE + EXCLUSIVE, TRUNCATE}
DotDescriptorFlags == {READ, READ + WRITE}

\* cur.open_at(path, open_flags, descriptor_flags, ucan)
OpenAtDots ==
    /\ cur # NoHandle
    /\ result = Idle
    /\ \E raw \in SeqsUpTo(DotSegments, MaxPathLen),
          open_flags \in DotOpenFlags,
          descriptor_flags \in DotDescriptorFlags, now \in Times,
          overflow_checks \in BOOLEAN :
         LET r == open_at(cur, raw, open_flags, descriptor_flags, now,
                          overflow_checks)
         IN  /\ result' = [kind |-> "Returned",
                           self |-> cur,
                           raw |-> raw,
                           open_flags |-> open_flags,
                           descriptor_flags |-> descriptor_flags,
                           res |-> r.res,
                           traced |-> r.traced,
                           before |-> created]
             /\ created' = IF r.res.kind = "Ok" /\ contains(open_flags, CREATE)
                           THEN Some(CanonicalPath(PathTryFrom(raw).path))
                           ELSE created
    /\ UNCHANGED <<root, workdir, cur>>
    /\ UNCHANGED <<shareVars, nodeVars>>
    /\ UNCHANGED unitVars

NextDots == MakeHandle \/ OpenAtDots \/ Release

SpecDots == Init /\ [][NextDots]_vars

----------------------------------------------------------------------------
(* Vocabulary of the properties *)

Returned == result.kind = "Returned"

\* the raw path of the call parses
Parses == \A i \in 1..Len(result.raw) : validate(result.raw[i])

\* the parsed path of the call
CallPath == [i \in 1..Len(result.raw) |-> SegmentTryFrom(result.raw[i])]

\* the stable kind of the outcome: "Ok", "Panic" or the error kind
Outcome == IF result.res.kind = "Err" THEN result.res.err ELSE result.res.kind

HasBit(flags, bit) == (flags \div bit) % 2 = 1

Rights == {READ, WRITE, MUTATE_DIR}

\* the four conditions of the protocol, as the specification words them
LacksRead == ~HasBit(result.descriptor_flags, READ)
HandleLacksRead == ~HasBit(result.self.flags, READ)
Escalates ==
    /\ ~HasBit(result.self.flags, MUTATE_DIR)
    /\ \/ HasBit(result.descriptor_flags, WRITE)
       \/ HasBit(result.descriptor_flags, MUTATE_DIR)
       \/ HasBit(result.open_flags, CREATE)
       \/ HasBit(result.open_flags, TRUNCATE)
Conflicts ==
    /\ HasBit(result.open_flags, DIRECTORY)
    /\ \/ HasBit(result.open_flags, CREATE)
       \/ HasBit(result.open_flags, EXCLUSIVE)
       \/ HasBit(result.open_flags, TRUNCATE)

PassesChecks == ~LacksRead /\ ~HandleLacksRead /\ ~Escalates /\ ~Conflicts

----------------------------------------------------------------------------
(* C1 *)

\* C1: for every open_at call whose path parses the error is that of the
\* first failing check in the order descriptor READ, handle READ, escalation
\* (reported exactly when it is the first to fail), DIRECTORY conflict; and
\* whenever one of the four fails the tree has not been traced.
C1_CheckOrder ==
    (Returned /\ Parses) =>
        /\ LacksRead => Outcome = "NeedAtLeastReadFlag"
        /\ (~LacksRead /\ HandleLacksRead) => Outcome = "NotAllowedToReadDir"
        /\ (~LacksRead /\ ~HandleLacksRead /\ Escalates)
              => Outcome = "ChildPermissionEscalation"
        /\ Outcome = "ChildPermissionEscalation"
              => (~LacksRead /\ ~HandleLacksRead /\ Escalates)
        /\ (~LacksRead /\ ~HandleLacksRead /\ ~Escalates /\ Conflicts)
              => Outcome = "InvalidOpenFlagsCombination"
        /\ ~PassesChecks => ~result.traced

\* a handle without MUTATE_DIR asked for CREATE|DIRECTORY was refused for
\* the escalation
C1_Witness ==
    /\ Returned /\ Parses
    /\ result.self.flags = READ
    /\ result.open_flags = CREATE + DIRECTORY
    /\ HasBit(result.descriptor_flags, READ)
    /\ Outcome = "ChildPermissionEscalation"

----------------------------------------------------------------------------
(* C2 *)

\* some right of the requested descriptor flags is absent from the flags of
\* the calling handle
AsksAbsentRight ==
    \E bit \in Rights :
        HasBit(result.descriptor_flags, bit) /\ ~HasBit(result.self.flags, bit)

\* C2 as claimed: every call that passes the two READ checks and asks for a
\* right the calling handle lacks fails with ChildPermissionEscalation
\* (calls that crash set aside), and the flags of a returned handle are a
\* subset of the caller's.
C2_Original ==
    (Returned /\ Parses /\ ~LacksRead /\ ~HandleLacksRead) =>
        /\ (AsksAbsentRight /\ Outcome # "Panic")
              => Outcome = "ChildPermissionEscalation"
        /\ Outcome = "Ok" =>
              \A bit \in Rights :
                  HasBit(result.res.handle.flags, bit)
                      => HasBit(result.self.flags, bit)

\* C2, amended: a call that passes the two READ checks through a handle
\* without MUTATE_DIR and asks for a right the handle lacks fails with
\* ChildPermissionEscalation; a returned handle carries exactly the requested
\* flags, and it carries a right its parent lacks only if the parent holds
\* MUTATE_DIR.
C2_Amended ==
    (Returned /\ Parses /\ ~LacksRead /\ ~HandleLacksRead) =>
        /\ (AsksAbsentRight /\ ~HasBit(result.self.flags, MUTATE_DIR))
              => Outcome = "ChildPermissionEscalation"
        /\ Outcome = "Ok" =>
              /\ result.res.handle.flags = result.descriptor_flags
              /\ AsksAbsentRight => HasBit(result.self.flags, MUTATE_DIR)

\* a READ-only handle asked for READ|WRITE with no open flag and was refused
C2_Witness ==
    /\ Returned /\ Parses
    /\ result.self.flags = READ
    /\ result.descriptor_flags = READ + WRITE
    /\ result.open_flags = 0
    /\ Outcome = "ChildPermissionEscalation"

----------------------------------------------------------------------------
(* C3 *)

\* the path of the call names an entity that exists: an entry of the calling
\* directory, or what an earlier CREATE through the same handle created
NamesExisting ==
    \/ Len(CallPath) = 1 /\ DirGet(result.self.entity, CallPath[1]).some
    \/ result.before.some /\ PathEq(result.before.value, CallPath)

\* C3: with EXCLUSIVE set and the path naming an existing entity, open_at
\* fails with OpenFlagsExclusiveButEntityExists, with CREATE or without.
C3_ExclusiveOnExisting ==
    (/\ Returned /\ Parses /\ PassesChecks
     /\ HasBit(result.open_flags, EXCLUSIVE)
     /\ NamesExisting)
        => Outcome = "OpenFlagsExclusiveButEntityExists"

----------------------------------------------------------------------------
(* C4 *)

\* C4: every successful open_at with CREATE returns a handle named by the
\* last segment of the path, with one pathdirs element per segment before
\* the last.
C4_CreateShape ==
    (Returned /\ Outcome = "Ok" /\ HasBit(result.open_flags, CREATE)) =>
        /\ result.res.handle.name = Some(CallPath[Len(CallPath)])
        /\ Len(result.res.handle.pathdirs) = Len(CallPath) - 1

\* a CREATE of a path of the longest length succeeded
C4_Witness ==
    /\ Returned /\ Outcome = "Ok" /\ HasBit(result.open_flags, CREATE)
    /\ Len(result.raw) = MaxPathLen
    /\ Len(result.res.handle.pathdirs) = MaxPathLen - 1

----------------------------------------------------------------------------
(* C5 *)

\* C5: open_at with CREATE on a single-segment path absent from the calling
\* directory succeeds with a new empty File named by that segment and an
\* empty pathdirs.
C5_CreateInPlace ==
    (/\ Returned /\ Parses /\ PassesChecks
     /\ HasBit(result.open_flags, CREATE)
     /\ Len(CallPath) = 1
     /\ ~DirGet(result.self.entity, CallPath[1]).some)
        => /\ Outcome = "Ok"
           /\ result.res.handle.entity.variant = "File"
           /\ result.res.handle.entity.node.content = NoCid
           /\ result.res.handle.name = Some(CallPath[1])
           /\ result.res.handle.pathdirs = <<>>

----------------------------------------------------------------------------
(* C6 *)

\* C6: after a successful CREATE of p through a handle, open_at through the
\* same handle with no open flag and READ, of a path equal to p up to letter
\* case, succeeds.
C6_CreatedIsVisible ==
    (/\ Returned /\ Parses
     /\ result.before.some /\ PathEq(result.before.value, CallPath)
     /\ result.open_flags = 0
     /\ result.descriptor_flags = READ)
        => Outcome = "Ok"

----------------------------------------------------------------------------
(* C7 *)

\* C7: open_at without CREATE of a two-segment path on a directory with no
\* entries fails with NotFound carrying the path up to and including the
\* first segment ("/public" for "/public/file").
C7_NotFoundPrefix ==
    (/\ Returned /\ Parses /\ PassesChecks
     /\ ~HasBit(result.open_flags, CREATE)
     /\ result.self.entity.entries = {}
     /\ Len(CallPath) = 2)
        => result.res = Err("NotFound", <<CallPath[1]>>)

----------------------------------------------------------------------------
(* C8 *)

\* C8: open_at of the empty path (without EXCLUSIVE) returns the calling
\* directory itself, with no name and an empty pathdirs.
C8_EmptyPath ==
    (/\ Returned /\ PassesChecks
     /\ result.raw = <<>>
     /\ ~HasBit(result.open_flags, EXCLUSIVE))
        => /\ Outcome = "Ok"
           /\ result.res.handle.entity = EntityDir(result.self.entity)
           /\ result.res.handle.name = None
           /\ result.res.handle.pathdirs = <<>>

----------------------------------------------------------------------------
(* C9 *)

\* C9 as claimed: in a returned handle, pathdirs element i pairs segment i
\* of the path with the directory descended out of: the first element holds
\* the directory of the calling handle, and each later directory is found
\* under the previous segment in the previous directory.
C9_Original ==
    (Returned /\ Outcome = "Ok") =>
        \A i \in 1..Len(result.res.handle.pathdirs) :
            /\ result.res.handle.pathdirs[i][2] = CallPath[i]
            /\ i = 1 => result.res.handle.pathdirs[i][1] = result.self.entity
            /\ i > 1 => DirGet(result.res.handle.pathdirs[i - 1][1],
                               CallPath[i - 1]).some

\* C9, amended: pathdirs element i pairs segment i of the path with the
\* directory that segment names, not the one descended out of; in every
\* handle open_at returns, segment i is absent from the directory above it
\* and its directory is a freshly allocated empty Dir.
C9_Amended ==
    (Returned /\ Outcome = "Ok") =>
        \A i \in 1..Len(result.res.handle.pathdirs) :
            /\ result.res.handle.pathdirs[i][2] = CallPath[i]
            /\ \E now \in Times :
                  result.res.handle.pathdirs[i][1] = DirNew(now)
            /\ ~DirGet(IF i = 1 THEN result.self.entity
                       ELSE result.res.handle.pathdirs[i - 1][1],
                       CallPath[i]).some

\* a file was created two levels below a directory that has an entry of its
\* own: the single pathdirs element is not that directory
C9_Witness ==
    /\ Returned /\ Outcome = "Ok"
    /\ result.self.entity.entries # {}
    /\ Len(result.res.handle.pathdirs) >= 1
    /\ result.res.handle.pathdirs[1][1] # result.self.entity
    /\ result.res.handle.pathdirs[1][2] = CallPath[1]

----------------------------------------------------------------------------
(* C10 *)

\* C10: in every returned handle with a non-empty pathdirs, the last
\* pathdirs directory has an entry under the name of the handle.
C10_ParentHoldsName ==
    (/\ Returned /\ Outcome = "Ok"
     /\ Len(result.res.handle.pathdirs) >= 1)
        => /\ result.res.handle.name.some
           /\ DirGet(result.res.handle.pathdirs[
                         Len(result.res.handle.pathdirs)][1],
                     result.res.handle.name.value).some

----------------------------------------------------------------------------
(* C11 *)

\* what a call through a fresh fork of the root with the same flags and
\* arguments may return
FreshOutcomes ==
    {open_at(make_handle(root, result.self.flags), result.raw,
             result.open_flags, result.descriptor_flags, now,
             overflow_checks).res :
        now \in Times, overflow_checks \in BOOLEAN}

----------------------------------------------------------------------------
(* C12 *)

Mutates == op.kind = "put" \/ op.kind = "truncate"

\* what the reference r observes after the step
ObserveNext(r) == heap'[refs'[r]].inner

\* C12: in every step, a reference that is held before and after and is not
\* the one a put or a truncate is made through observes the same entries,
\* content and metadata after the step as before; the reference a put is made
\* through finds the Cid under the name, and the one a truncate is made
\* through finds no content.
C12_CopyOnWrite ==
    [][/\ \A r \in RefNames :
             (Bound(r) /\ Bound(r)' /\ ~(Mutates' /\ op'.ref = r))
                 => ObserveNext(r) = Observe(r)
       /\ op'.kind = "put" =>
             /\ DirGet(ObserveNext(op'.ref), op'.name).some
             /\ DirGet(ObserveNext(op'.ref), op'.name).link.identifier = op'.cid
       /\ op'.kind = "truncate" => ObserveNext(op'.ref).content = NoCid]_vars

\* a put or a truncate was made through one of two references to the same
\* interior, and the two now observe different values
C12_Witness ==
    /\ Mutates
    /\ op.shared
    /\ \A r \in RefNames : Bound(r)
    /\ Observe("x") # Observe("y")

----------------------------------------------------------------------------
(* C13 *)

\* the stored node an entry of dir names: the block under the entry's Cid
StoredUnder(dir, seg) ==
    (CHOOSE b \in store.backing : b.cid = DirGet(dir, seg).link.identifier).node

\* the kind of node the segment names in dir, "None" when dir has no entry
EntryForm(dir, seg) ==
    IF DirGet(dir, seg).some THEN StoredUnder(dir, seg).form ELSE "None"

\* the call is on a one-segment path that names a node of the given kind in
\* the handle's directory
LastIs(form) ==
    /\ Len(result.raw) = 1
    /\ EntryForm(result.self.entity, CallPath[1]) = form

\* the call is on a two-segment path whose first segment names a node of the
\* given kind in the handle's directory
FirstIs(form) ==
    /\ Len(result.raw) = 2
    /\ EntryForm(result.self.entity, CallPath[1]) = form

\* C13: a call that passes the four checks, without DIRECTORY or EXCLUSIVE,
\* on a path that names an existing file returns a handle on a file whose
\* content is None when TRUNCATE is set and the stored file's content when it
\* is not.
C13_TruncateOnOpen ==
    (/\ Returned /\ Parses /\ PassesChecks
     /\ LastIs("File")
     /\ ~HasBit(result.open_flags, DIRECTORY)
     /\ ~HasBit(result.open_flags, EXCLUSIVE)) =>
        /\ Outcome = "Ok"
        /\ result.res.handle.entity.variant = "File"
        /\ result.res.handle.entity.node.content =
              IF HasBit(result.open_flags, TRUNCATE) THEN NoCid
              ELSE StoredUnder(result.self.entity, CallPath[1]).content

----------------------------------------------------------------------------
(* C14 *)

\* C14: a call with DIRECTORY and no conflicting flag that passes the checks
\* fails with OpenFlagsDirectoryButEntityNotADir when its path names a file,
\* and a handle it returns is on a directory.
C14_DirectoryFlag ==
    (/\ Returned /\ Parses /\ PassesChecks
     /\ HasBit(result.open_flags, DIRECTORY)) =>
        /\ LastIs("File") => Outcome = "OpenFlagsDirectoryButEntityNotADir"
        /\ Outcome = "Ok" => result.res.handle.entity.variant = "Dir"

----------------------------------------------------------------------------
(* C15 *)

\* C15: a call that passes the checks fails with SymLinkNotSupportedYet when
\* a segment before the last names a symlink, with or without CREATE, and with
\* NotAFileOrDir when the last segment names one (EXCLUSIVE without CREATE set
\* aside, which fails for the entity existing).
C15_SymlinkOnPath ==
    (Returned /\ Parses /\ PassesChecks) =>
        /\ FirstIs("Symlink") => Outcome = "SymLinkNotSupportedYet"
        /\ (/\ LastIs("Symlink")
            /\ \/ HasBit(result.open_flags, CREATE)
               \/ ~HasBit(result.open_flags, EXCLUSIVE))
              => Outcome = "NotAFileOrDir"

----------------------------------------------------------------------------
(* C16 *)

\* C16: a call that passes the checks on a two-segment path whose first
\* segment names a file fails with NotADirectory carrying the empty prefix,
\* with and without CREATE.
C16_FileOnPath ==
    (Returned /\ Parses /\ PassesChecks /\ FirstIs("File")) =>
        /\ Outcome = "NotADirectory"
        /\ result.res.path = <<>>

----------------------------------------------------------------------------
(* C17 *)

\* every segment a name of the model parses to
Segments == {SegmentTryFrom(str) : str \in RawSegments}

\* no two keys of the directory are equal ignoring letter case
UniqueKeys(dir) ==
    \A e1 \in dir.entries, e2 \in dir.entries :
        SegmentEq(e1.key, e2.key) => e1 = e2

\* C17: after every put(n, c) the directory has at most one key per
\* case-folded name, get of every name equal to n ignoring letter case
\* returns c, and get of every other name returns what it returned before.
C17_LastPutWins ==
    [][op'.kind = "put" =>
          /\ UniqueKeys(workdir')
          /\ \A n \in Segments :
                IF SegmentEq(n, op'.name)
                THEN /\ DirGet(workdir', n).some
                     /\ DirGet(workdir', n).link.identifier = op'.cid
                ELSE DirGet(workdir', n) = DirGet(workdir, n)]_vars

\* a put has replaced the Cid of a name written in the other letter case,
\* beside an entry it left alone
C17_Witness ==
    /\ op.kind = "put"
    /\ \E e \in workdir.entries :
           /\ SegmentEq(e.key, op.name)
           /\ e.key # op.name
           /\ e.link.identifier = op.cid
    /\ Cardinality(workdir.entries) = 2

----------------------------------------------------------------------------
(* C18 *)

\* C18: two directories that compare equal (same metadata, same names up to
\* letter case, same Cids) serialize to the same form, whatever puts built
\* them.
C18_EqualSerializeAlike ==
    (workdir # NoDir /\ twin # NoDir /\ DirEq(workdir, twin)) =>
        DirSerialize(workdir) = DirSerialize(twin)

----------------------------------------------------------------------------
(* C19 *)

\* the names, as written, and the Cids of a directory
NamedCids(dir) == {<<to_string(e.key), e.link.identifier>> : e \in dir.entries}

\* C19: storing a directory and loading the Cid returned from the same store
\* succeeds and yields a directory equal to it, with the same metadata and
\* the same names and Cids.
C19_RoundTrip ==
    op.kind = "store_load" =>
        /\ op.loaded.kind = "Ok"
        /\ DirEq(op.loaded.dir, DirOf(op.which))
        /\ op.loaded.dir.metadata = DirOf(op.which).metadata
        /\ NamedCids(op.loaded.dir) = NamedCids(DirOf(op.which))

\* a directory with two entries, one under a capital name, made later than
\* the stored empty directory, was stored and loaded
C19_Witness ==
    /\ op.kind = "store_load"
    /\ Cardinality(DirOf(op.which).entries) = 2
    /\ \E e \in DirOf(op.which).entries : e.key = Named("A")
    /\ DirOf(op.which).metadata.created_at > 0

----------------------------------------------------------------------------
(* C20 *)

\* C20: get_entity on every name present in the directory's entries returns
\* the node stored under the entry's Cid: an entity of the same kind with
\* the same metadata.
C20_EntriesLoad ==
    workdir # NoDir =>
        \A e \in workdir.entries :
            /\ get_entity(workdir, e.key).kind = "Ok"
            /\ get_entity(workdir, e.key).some
            /\ get_entity(workdir, e.key).entity.variant =
                  StoredUnder(workdir, e.key).form
            /\ get_entity(workdir, e.key).entity.node.metadata =
                  StoredUnder(workdir, e.key).metadata

----------------------------------------------------------------------------
(* C21 *)

\* the tasks whose call of resolve has returned Ok and is not yet taken
ReturnedOk == {t \in TaskNames : tasks[t].pc = "done" /\ tasks[t].ret.kind = "Ok"}

\* C21: however the calls of resolve of the tasks interleave, at most one
\* task runs its load at a time, the cache is written at most once, a call
\* that returns Ok returns the value in the cache, and a populated cache
\* never changes.
C21_SingleInit ==
    [][/\ Cardinality({t \in TaskNames : tasks'[t].pc = "init"}) <= 1
       /\ Len(fills') <= 1
       /\ cidlink' # NoLink =>
              (cidlink'.cached.value # NoValue) = (Len(fills') = 1)
       /\ \A t \in TaskNames :
              (tasks'[t].pc = "done" /\ tasks'[t].ret.kind = "Ok") =>
                  /\ cidlink'.cached.value # NoValue
                  /\ tasks'[t].ret.dir = cidlink'.cached.value
                  /\ fills' = <<tasks'[t].ret.dir>>
       /\ (cidlink # NoLink /\ cidlink.cached.value # NoValue) =>
              cidlink'.cached = cidlink.cached]_vars

\* two calls have returned Ok from one cache, one of them after waiting for
\* the load of another task
C21_Witness ==
    /\ Cardinality(ReturnedOk) >= 2
    /\ \E t \in ReturnedOk : tasks[t].waited
    /\ Len(fills) = 1

----------------------------------------------------------------------------
(* C22 *)

----------------------------------------------------------------------------
(* C23 *)

CidsIn(blocks) == {b.cid : b \in blocks}
OverlayPutCalls == {"put_node", "put_bytes", "put_raw_block"}

----------------------------------------------------------------------------
(* C24 *)

\* C24: whatever wait, read and skip calls were made on the stream, the
\* bytes its reads returned and its skips counted are, in order, the first
\* bytes of the file's content.
C24_ByteAccurate ==
    stream # NoStream =>
        /\ Len(taken) <= Len(stream.content)
        /\ \A i \in 1..Len(taken) : taken[i].byte = stream.content[i]

----------------------------------------------------------------------------
(* C25 *)

\* the Named segments less the `..` segments among the first k segments
RECURSIVE Depth(_, _)
Depth(path, k) ==
    IF k = 0 THEN 0
    ELSE Depth(path, k - 1)
         + (CASE path[k].tag = "Named" -> 1
              [] path[k].tag = "ParentDir" -> -1
              [] OTHER -> 0)

\* the Named segments no later `..` pops
Kept(path) ==
    {i \in 1..Len(path) :
        /\ path[i].tag = "Named"
        /\ \A j \in (i + 1)..Len(path) : Depth(path, j) >= Depth(path, i)}

\* C25: canonicalize fails with LeadingCurrentDir when segment 0 is `.`,
\* with OutOfBoundsParentDir when some `..` has nothing before it left to
\* pop, and else returns, in order, the Named segments that no later `..`
\* pops; canonicalizing that result again returns it unchanged.
C25_Canonicalize ==
    pathop.kind = "canonicalize" =>
        IF Len(parsed.a) > 0 /\ parsed.a[1].tag = "CurrentDir"
        THEN pathop.res.kind = "Err" /\ pathop.res.err = "LeadingCurrentDir"
        ELSE IF \E k \in 1..Len(parsed.a) : Depth(parsed.a, k) < 0
        THEN pathop.res.kind = "Err" /\ pathop.res.err = "OutOfBoundsParentDir"
        ELSE /\ pathop.res.kind = "Ok"
             /\ Len(pathop.res.path) = Cardinality(Kept(parsed.a))
             /\ \A i \in Kept(parsed.a) :
                    pathop.res.path[Cardinality({j \in Kept(parsed.a) : j <= i})]
                        = parsed.a[i]
             /\ \A n \in 1..Len(pathop.res.path) :
                    pathop.res.path[n].tag = "Named"
             /\ pathop.again = pathop.res

\* /a/../.. has been canonicalized and has failed
C25_Witness ==
    /\ pathop.kind = "canonicalize"
    /\ parsed.a = <<Named("a"), ParentDir, ParentDir>>
    /\ pathop.res.kind = "Err"

----------------------------------------------------------------------------
(* C26 *)

\* C26: two parsed paths are equal exactly when they have as many segments
\* and the same segments once Named segments are lower-cased, exactly when
\* cmp finds them Equal; equal paths write the same to the hasher.
C26_CaseInsensitive ==
    pathop.kind = "compare" =>
        /\ pathop.eq =
              (/\ Len(parsed.a) = Len(parsed.b.value)
               /\ \A i \in 1..Len(parsed.a) :
                      /\ parsed.a[i].tag = parsed.b.value[i].tag
                      /\ to_lowercase(parsed.a[i].s)
                             = to_lowercase(parsed.b.value[i].s))
        /\ pathop.eq = (pathop.cmp = "Equal")
        /\ pathop.eq => pathop.hasha = pathop.hashb

\* paths that differ only in letter case are found equal
C26_Witness ==
    /\ pathop.kind = "compare"
    /\ pathop.eq
    /\ parsed.a # parsed.b.value
    /\ Len(parsed.a) = MaxPathLen

----------------------------------------------------------------------------
(* C27 *)

\* the clients under a guard of the lock
Holding(kinds) ==
    {c \in ClientNames : calls[c].pc = "locked" /\ calls[c].call.kind \in kinds}

\* C27: however the calls of the clients interleave, a writing call runs
\* alone under the lock, and each call takes effect as on a map: read_block
\* returns the data of the last write_block of its id if no delete_block of
\* that id took effect since and BlockNotFound otherwise, delete_block of
\* an absent id returns BlockNotFound and changes nothing, and no call
\* changes the block of another id.
C27_BehavesAsMap ==
    [][/\ Cardinality(Holding({"write_block", "delete_block"})') <= 1
       /\ Holding({"write_block", "delete_block"})' # {} =>
              Holding({"read_block"})' = {}
       /\ \A c \in ClientNames :
            (calls[c].pc = "locked" /\ calls'[c].pc = "done") =>
              /\ \A id \in BlockIds \ {calls[c].call.id} :
                     memblocks'[id] = memblocks[id]
              /\ calls[c].call.kind = "read_block" =>
                   /\ memblocks' = memblocks
                   /\ calls'[c].ret =
                        IF ledger[calls[c].call.id].kind = "write_block"
                        THEN [kind |-> "Ok",
                              data |-> ledger[calls[c].call.id].data]
                        ELSE BlockNotFound(calls[c].call.id)
              /\ calls[c].call.kind = "write_block" =>
                   /\ calls'[c].ret = [kind |-> "Ok"]
                   /\ memblocks'[calls[c].call.id] =
                          [some |-> TRUE, data |-> calls[c].call.data]
              /\ calls[c].call.kind = "delete_block" =>
                   /\ ~memblocks'[calls[c].call.id].some
                   /\ calls'[c].ret =
                        IF ledger[calls[c].call.id].kind = "write_block"
                        THEN [kind |-> "Ok"]
                        ELSE BlockNotFound(calls[c].call.id)
                   /\ calls'[c].ret.kind = "Err" => memblocks' = memblocks]_vars

\* a read has returned the data written under its id while the last call
\* that took effect on the other id was a delete and the other client waits
\* for the lock
C27_Witness ==
    \E c \in ClientNames, id \in BlockIds :
        /\ calls[c].pc = "done"
        /\ calls[c].call.kind = "read_block"
        /\ calls[c].call.id = id
        /\ calls[c].ret.kind = "Ok"
        /\ \E o \in BlockIds \ {id} : ledger[o].kind = "delete_block"
        /\ \E k \in ClientNames \ {c} : calls[k].pc = "wait"

----------------------------------------------------------------------------
(* C28 *)

\* the segments i..k of the path each resolve to a directory, from dir on
RECURSIVE WalkDirs(_, _, _, _)
WalkDirs(dir, path, i, k) ==
    IF i > k THEN TRUE
    ELSE /\ get_entity(dir, path[i]).kind = "Ok"
         /\ get_entity(dir, path[i]).some
         /\ get_entity(dir, path[i]).entity.variant = "Dir"
         /\ WalkDirs(get_entity(dir, path[i]).entity.node, path, i + 1, k)

\* C28: when trace_entity returns Incomplete with a depth, the first depth
\* segments of the path resolve to directories inside the traced directory,
\* whatever the depth, the length of the path included.
C28_IncompletePrefix ==
    (op.kind = "trace_entity" /\ op.res.kind = "Incomplete") =>
        WalkDirs(op.self, op.path, 1, op.res.depth)

----------------------------------------------------------------------------
(* C29 *)

----------------------------------------------------------------------------
(* C30 *)

\* C30: for every path that parses, segments `.` and `..` included, the
\* handle open_at returns has a name that is a Named segment and pathdirs
\* whose segments are all Named.
C30_Confined ==
    (Returned /\ Outcome = "Ok") =>
        /\ result.res.handle.name.some =>
               result.res.handle.name.value.tag = "Named"
        /\ \A i \in 1..Len(result.res.handle.pathdirs) :
               result.res.handle.pathdirs[i][2].tag = "Named"

====
